---- MODULE Spec2Model ----
(***************************************************************************)
(* Position representation, move generation and make/unmake of the         *)
(* viridithas chess core (src/src/board.rs, src/src/board/movegen.rs).     *)
(*                                                                         *)
(* Squares are 0..63 (A1 = 0, B1 = 1, ..., H8 = 63).  A SquareSet is a set *)
(* of squares.  A Zobrist key is the set of key atoms whose random words   *)
(* are currently XORed in, so XOR is symmetric difference.                 *)
(***************************************************************************)
EXTENDS Integers, Sequences, FiniteSets, Bags, TLC

VARIABLES
    pieces,              \* PieceLayout: piece -> SquareSet
    piece_array,         \* mailbox: square -> piece or NoPiece
    side,                \* side to move
    ep_sq,               \* en passant square or NoSq
    castle_perm,         \* [wk, wq, bk, bq]: rook square or NoSq
    fifty_move_counter,
    ply,
    key, pawn_key, non_pawn_key, minor_key, major_key,
    threats,             \* [all, checkers]
    height,
    history,             \* sequence of Undo records
    chess960,            \* the process-wide CHESS960 flag
    overflow_checks,     \* whether the build aborts on integer overflow
    last_op,             \* the operation that produced this state
    last_move,           \* its move argument (NoMove if none)
    history_table,       \* HistoryTable: slot -> value, zero where absent
    double_history_table,\* DoubleHistoryTable: [len, table: index -> value]
    before               \* <<Board>> the last make or null move was called on, or
                         \* <<Board, string>> the last parse was called with (and, for
                         \* parse_uci, the reason it returned), else <<>>;
                         \* under SpecHistory the tables before the last call,
                         \* its slot, and the calls made so far

vars == <<pieces, piece_array, side, ep_sq, castle_perm, fifty_move_counter,
          ply, key, pawn_key, non_pawn_key, minor_key, major_key, threats,
          height, history, chess960, overflow_checks, history_table,
          double_history_table, last_op, last_move, before>>

-----------------------------------------------------------------------------
(* Bounds of the exploration.                                              *)

MaxHistory == 2

-----------------------------------------------------------------------------
(* Geometry: squares, files, ranks, colours, pieces.                       *)

Squares == 0..63
NoSq == -1
NoPiece == "None"

A1 == 0
B1 == 1
C1 == 2
D1 == 3
E1 == 4
F1 == 5
G1 == 6
H1 == 7
A2 == 8
H7 == 55
A8 == 56
B8 == 57
C8 == 58
D8 == 59
E8 == 60
F8 == 61
G8 == 62
H8 == 63

FileOf(sq) == sq % 8
RankOf(sq) == sq \div 8
from_rank_file(r, f) == r * 8 + f

White == "White"
Black == "Black"
flip(c) == IF c = White THEN Black ELSE White

Pieces == {"WP", "WN", "WB", "WR", "WQ", "WK", "BP", "BN", "BB", "BR", "BQ", "BK"}

colour == [p \in Pieces |-> IF p \in {"WP", "WN", "WB", "WR", "WQ", "WK"} THEN White ELSE Black]
piece_type ==
    [p \in Pieces |->
        CASE p \in {"WP", "BP"} -> "Pawn"
          [] p \in {"WN", "BN"} -> "Knight"
          [] p \in {"WB", "BB"} -> "Bishop"
          [] p \in {"WR", "BR"} -> "Rook"
          [] p \in {"WQ", "BQ"} -> "Queen"
          [] OTHER -> "King"]
PieceNew(c, pt) ==
    CHOOSE p \in Pieces : colour[p] = c /\ piece_type[p] = pt

\* Square::relative_to: mirror the rank for Black.
relative_to(sq, c) == IF c = White THEN sq ELSE from_rank_file(7 - RankOf(sq), FileOf(sq))

\* Square::pawn_push: one step forward, NoSq when it leaves the board.
pawn_push(sq, c) ==
    IF c = White
    THEN (IF sq + 8 \in Squares THEN sq + 8 ELSE NoSq)
    ELSE (IF sq - 8 \in Squares THEN sq - 8 ELSE NoSq)

Min(S) == CHOOSE x \in S : \A y \in S : x <= y

\* A SquareSet iterates from the lowest square to the highest.
SortedSeq(S) ==
    [i \in 1..Cardinality(S) |-> CHOOSE x \in S : Cardinality({y \in S : y < x}) = i - 1]

\* SquareSet::first.
first(S) == Min(S)

-----------------------------------------------------------------------------
(* SquareSet shifts.                                                       *)

north_one(S) == {s + 8 : s \in S} \cap Squares
south_one(S) == {s - 8 : s \in S} \cap Squares
east_one(S) == {s + 1 : s \in {x \in S : FileOf(x) # 7}}
west_one(S) == {s - 1 : s \in {x \in S : FileOf(x) # 0}}
north_east_one(S) == {s + 9 : s \in {x \in S : FileOf(x) # 7}} \cap Squares
north_west_one(S) == {s + 7 : s \in {x \in S : FileOf(x) # 0}} \cap Squares
south_east_one(S) == {s - 7 : s \in {x \in S : FileOf(x) # 7}} \cap Squares
south_west_one(S) == {s - 9 : s \in {x \in S : FileOf(x) # 0}} \cap Squares
\* the raw shifts  bb >> n  and  bb << n
shr(S, n) == {s - n : s \in S} \cap Squares
shl(S, n) == {s + n : s \in S} \cap Squares

RANK_1 == {s \in Squares : RankOf(s) = 0}
RANK_2 == {s \in Squares : RankOf(s) = 1}
RANK_4 == {s \in Squares : RankOf(s) = 3}
RANK_5 == {s \in Squares : RankOf(s) = 4}
RANK_7 == {s \in Squares : RankOf(s) = 6}
RANK_8 == {s \in Squares : RankOf(s) = 7}

-----------------------------------------------------------------------------
(* Attack tables.                                                          *)

Abs(x) == IF x < 0 THEN -x ELSE x
Sign(x) == IF x < 0 THEN -1 ELSE IF x > 0 THEN 1 ELSE 0

OnLine(a, b) ==
    /\ a # b
    /\ \/ RankOf(a) = RankOf(b)
       \/ FileOf(a) = FileOf(b)
OnDiag(a, b) ==
    /\ a # b
    /\ Abs(RankOf(a) - RankOf(b)) = Abs(FileOf(a) - FileOf(b))

\* RAY_BETWEEN[a][b]: the squares strictly between a and b on a shared
\* rank, file or diagonal; empty otherwise.
RAY_BETWEEN ==
    [a \in Squares |-> [b \in Squares |->
        IF OnLine(a, b) \/ OnDiag(a, b)
        THEN LET dr == Sign(RankOf(b) - RankOf(a))
                 df == Sign(FileOf(b) - FileOf(a))
                 n  == IF RankOf(a) # RankOf(b) THEN Abs(RankOf(b) - RankOf(a))
                                                ELSE Abs(FileOf(b) - FileOf(a))
             IN  {from_rank_file(RankOf(a) + i * dr, FileOf(a) + i * df) : i \in 1..(n - 1)}
        ELSE {}]]

KnightTable ==
    [s \in Squares |->
        {t \in Squares :
            LET dr == Abs(RankOf(s) - RankOf(t))
                df == Abs(FileOf(s) - FileOf(t))
            IN  (dr = 1 /\ df = 2) \/ (dr = 2 /\ df = 1)}]
KingTable ==
    [s \in Squares |->
        {t \in Squares : t # s /\ Abs(RankOf(s) - RankOf(t)) <= 1 /\ Abs(FileOf(s) - FileOf(t)) <= 1}]
LineTable == [s \in Squares |-> {t \in Squares : OnLine(s, t)}]
DiagTable == [s \in Squares |-> {t \in Squares : OnDiag(s, t)}]

knight_attacks(sq) == KnightTable[sq]
king_attacks(sq) == KingTable[sq]
\* slider attacks: every square of a ray up to and including the first blocker
bishop_attacks(sq, blockers) == {t \in DiagTable[sq] : RAY_BETWEEN[sq][t] \cap blockers = {}}
rook_attacks(sq, blockers) == {t \in LineTable[sq] : RAY_BETWEEN[sq][t] \cap blockers = {}}

pawn_attacks(c, bb) ==
    IF c = White
    THEN north_east_one(bb) \cup north_west_one(bb)
    ELSE south_east_one(bb) \cup south_west_one(bb)

attacks_by_type(pt, sq, blockers) ==
    CASE pt = "Bishop" -> bishop_attacks(sq, blockers)
      [] pt = "Rook" -> rook_attacks(sq, blockers)
      [] pt = "Queen" -> bishop_attacks(sq, blockers) \cup rook_attacks(sq, blockers)
      [] pt = "Knight" -> knight_attacks(sq)
      [] pt = "King" -> king_attacks(sq)

-----------------------------------------------------------------------------
(* Piece layout (the bitboards).                                           *)

LayoutNull == [p \in Pieces |-> {}]

set_piece_at(pl, sq, p) == [pl EXCEPT ![p] = @ \cup {sq}]
clear_piece_at(pl, sq, p) == [pl EXCEPT ![p] = @ \ {sq}]
layout_move_piece(pl, from, to, p) == [pl EXCEPT ![p] = (@ \ {from}) \cup {to}]

pawns(pl, c) == pl[PieceNew(c, "Pawn")]
knights(pl, c) == pl[PieceNew(c, "Knight")]
bishops(pl, c) == pl[PieceNew(c, "Bishop")]
rooks(pl, c) == pl[PieceNew(c, "Rook")]
queens(pl, c) == pl[PieceNew(c, "Queen")]
king(pl, c) == pl[PieceNew(c, "King")]
diags(pl, c) == bishops(pl, c) \cup queens(pl, c)
orthos(pl, c) == rooks(pl, c) \cup queens(pl, c)
occupied_co(pl, c) == UNION {pl[p] : p \in {q \in Pieces : colour[q] = c}}
occupied(pl) == UNION {pl[p] : p \in Pieces}
empty(pl) == Squares \ occupied(pl)
all_pawns(pl) == pl["WP"] \cup pl["BP"]
all_kings(pl) == pl["WK"] \cup pl["BK"]
their_pieces(pl, c) == occupied_co(pl, flip(c))

-----------------------------------------------------------------------------
(* Zobrist keying: a key is the set of atoms XORed into it.                *)

Xor(k, atoms) == (k \ atoms) \cup (atoms \ k)
hash_piece(k, p, sq) == Xor(k, {<<p, sq>>})
hash_side(k) == Xor(k, {<<"side", 0>>})
hash_ep(k, sq) == Xor(k, {<<"ep", FileOf(sq)>>})
hashkey_index(cp) ==
    (IF cp.wk # NoSq THEN 1 ELSE 0) + (IF cp.wq # NoSq THEN 2 ELSE 0)
    + (IF cp.bk # NoSq THEN 4 ELSE 0) + (IF cp.bq # NoSq THEN 8 ELSE 0)
hash_castling(k, cp) == Xor(k, {<<"castle", hashkey_index(cp)>>})

CastlingNone == [wk |-> NoSq, wq |-> NoSq, bk |-> NoSq, bq |-> NoSq]
kingside(cp, c) == IF c = White THEN cp.wk ELSE cp.bk
queenside(cp, c) == IF c = White THEN cp.wq ELSE cp.bq
\* CastlingRights::remove: drop every right whose rook square is sq
rights_remove(cp, sq) ==
    [wk |-> IF cp.wk = sq THEN NoSq ELSE cp.wk,
     wq |-> IF cp.wq = sq THEN NoSq ELSE cp.wq,
     bk |-> IF cp.bk = sq THEN NoSq ELSE cp.bk,
     bq |-> IF cp.bq = sq THEN NoSq ELSE cp.bq]

-----------------------------------------------------------------------------
(* Moves.  A move is [from, to, flag, promo]; castling is encoded as       *)
(* "king captures own rook".                                               *)

NoPromo == "NoPromo"
MoveNew(from, to) == [from |-> from, to |-> to, flag |-> "Normal", promo |-> NoPromo]
MoveNewWithPromo(from, to, pt) == [from |-> from, to |-> to, flag |-> "Promotion", promo |-> pt]
MoveNewWithFlags(from, to, fl) == [from |-> from, to |-> to, flag |-> fl, promo |-> NoPromo]
NoMove == [from |-> NoSq, to |-> NoSq, flag |-> "Normal", promo |-> NoPromo]

is_castle(m) == m.flag = "Castle"
is_ep(m) == m.flag = "EnPassant"
is_promo(m) == m.flag = "Promotion"
promotion_type(m) == m.promo

\* Move::history_to_square: the king's real destination for a castling move.
history_to_square(m) ==
    IF is_castle(m)
    THEN (IF m.to > m.from THEN relative_to(G1, IF RankOf(m.from) = 0 THEN White ELSE Black)
                           ELSE relative_to(C1, IF RankOf(m.from) = 0 THEN White ELSE Black))
    ELSE m.to

-----------------------------------------------------------------------------
(* UpdateBuffer: the piece-square subs and adds a make emits.              *)

UpdateBufferDefault == [subs |-> <<>>, adds |-> <<>>]
ub_clear_piece(ub, sq, p) == [ub EXCEPT !.subs = Append(@, [sq |-> sq, piece |-> p])]
ub_add_piece(ub, sq, p) == [ub EXCEPT !.adds = Append(@, [sq |-> sq, piece |-> p])]
ub_move_piece(ub, from, to, p) == ub_add_piece(ub_clear_piece(ub, from, p), to, p)

-----------------------------------------------------------------------------
(* Board queries.                                                          *)

ThreatsDefault == [all |-> {}, checkers |-> {}]

Board ==
    [pieces |-> pieces, piece_array |-> piece_array, side |-> side, ep_sq |-> ep_sq,
     castle_perm |-> castle_perm, fifty_move_counter |-> fifty_move_counter, ply |-> ply,
     key |-> key, pawn_key |-> pawn_key, non_pawn_key |-> non_pawn_key,
     minor_key |-> minor_key, major_key |-> major_key, threats |-> threats,
     height |-> height, history |-> history]

king_sq(b, c) == first(king(b.pieces, c))
in_check(b) == b.threats.checkers # {}
moved_piece(b, m) == b.piece_array[m.from]
captured_piece(b, m) == IF is_castle(m) THEN NoPiece ELSE b.piece_array[m.to]

is_double_pawn_push(b, m) ==
    IF {m.from} \cap (RANK_2 \cup RANK_7) = {} THEN FALSE
    ELSE IF {m.to} \cap (RANK_4 \cup RANK_5) = {} THEN FALSE
    ELSE IF moved_piece(b, m) = NoPiece THEN FALSE
    ELSE piece_type[moved_piece(b, m)] = "Pawn"

\* The per-class key update shared by generate_pos_keys and make_move_base.
hash_piece_keys(K, p, sq) ==
    LET k1 == [K EXCEPT !.key = hash_piece(@, p, sq)]
    IN  IF piece_type[p] = "Pawn"
        THEN [k1 EXCEPT !.pawn_key = hash_piece(@, p, sq)]
        ELSE LET k2 == [k1 EXCEPT !.non_pawn_key[colour[p]] = hash_piece(@, p, sq)]
             IN  IF piece_type[p] = "King"
                 THEN [k2 EXCEPT !.major_key = hash_piece(@, p, sq),
                                 !.minor_key = hash_piece(@, p, sq)]
                 ELSE IF piece_type[p] \in {"Queen", "Rook"}
                 THEN [k2 EXCEPT !.major_key = hash_piece(@, p, sq)]
                 ELSE [k2 EXCEPT !.minor_key = hash_piece(@, p, sq)]

KeysZero ==
    [key |-> {}, pawn_key |-> {}, non_pawn_key |-> [c \in {White, Black} |-> {}],
     minor_key |-> {}, major_key |-> {}]

\* PieceLayout::visit_pieces as the sequence of (square, piece) it visits.
visit_pieces(pl) ==
    LET occ == SortedSeq(occupied(pl))
    IN  [i \in 1..Len(occ) |->
            [sq |-> occ[i], piece |-> CHOOSE p \in Pieces : occ[i] \in pl[p]]]

RECURSIVE HashVisitedRange(_, _, _, _)
\* The visits lo..hi in order.  The range is halved at each call, and the
\* keys so far are evaluated (K # K) before a half is entered, so that the
\* evaluation nests to the logarithm of the number of pieces.
HashVisitedRange(K, visited, lo, hi) ==
    IF lo > hi \/ K # K THEN K
    ELSE IF lo = hi THEN hash_piece_keys(K, visited[lo].piece, visited[lo].sq)
    ELSE HashVisitedRange(HashVisitedRange(K, visited, lo, (lo + hi) \div 2),
                          visited, (lo + hi) \div 2 + 1, hi)

HashVisited(K, visited) == HashVisitedRange(K, visited, 1, Len(visited))

\* the tail of generate_pos_keys: side, en passant and castling enter the
\* main key once the pieces are hashed
PosKeysState(K, b) ==
    LET k2 == IF b.side = White THEN hash_side(K.key) ELSE K.key
        k3 == IF b.ep_sq # NoSq THEN hash_ep(k2, b.ep_sq) ELSE k2
    IN  [K EXCEPT !.key = hash_castling(k3, b.castle_perm)]

generate_pos_keys(b) == PosKeysState(HashVisited(KeysZero, visit_pieces(b.pieces)), b)

\* generate_threats_from with the defending king lifted off the board, so that
\* sliders see through it: a variant C6 must reject
generate_threats_from_xray(b, C) ==
    LET pl == b.pieces
        our_king == king_sq(b, flip(C))
        blockers == occupied(pl) \ {our_king}
        all == pawn_attacks(C, pawns(pl, C))
               \cup UNION {knight_attacks(sq) : sq \in knights(pl, C)}
               \cup UNION {bishop_attacks(sq, blockers) : sq \in diags(pl, C)}
               \cup UNION {rook_attacks(sq, blockers) : sq \in orthos(pl, C)}
               \cup king_attacks(king_sq(b, C))
        checkers == (pawn_attacks(flip(C), {our_king}) \cap pawns(pl, C))
                    \cup (knight_attacks(our_king) \cap knights(pl, C))
                    \cup (bishop_attacks(our_king, blockers) \cap diags(pl, C))
                    \cup (rook_attacks(our_king, blockers) \cap orthos(pl, C))
    IN  [all |-> all, checkers |-> checkers]

\* generate_threats_from::<C>: C is the attacking side.
generate_threats_from(b, C) ==
    LET pl == b.pieces
        their_pawns == pawns(pl, C)
        their_knights == knights(pl, C)
        their_diags == diags(pl, C)
        their_orthos == orthos(pl, C)
        their_king == king_sq(b, C)
        blockers == occupied(pl)
        all == pawn_attacks(C, their_pawns)
               \cup UNION {knight_attacks(sq) : sq \in their_knights}
               \cup UNION {bishop_attacks(sq, blockers) : sq \in their_diags}
               \cup UNION {rook_attacks(sq, blockers) : sq \in their_orthos}
               \cup king_attacks(their_king)
        our_king == king_sq(b, flip(C))
        backwards_from_king == pawn_attacks(flip(C), {our_king})
        checkers == (backwards_from_king \cap their_pawns)
                    \cup (knight_attacks(our_king) \cap their_knights)
                    \cup (bishop_attacks(our_king, blockers) \cap their_diags)
                    \cup (rook_attacks(our_king, blockers) \cap their_orthos)
    IN  [all |-> all, checkers |-> checkers]

generate_threats(b, c) == generate_threats_from(b, c)

\* self.threats = self.generate_threats(self.side.flip())
WithThreats(b) == [b EXCEPT !.threats = generate_threats(b, flip(b.side))]

\* sq_attacked_by::<C>: is sq attacked by side C?
sq_attacked_by(b, C, sq) ==
    IF C # b.side THEN sq \in b.threats.all
    ELSE LET pl == b.pieces
             blockers == occupied(pl)
         IN  \/ pawn_attacks(C, pawns(pl, C)) \cap {sq} # {}
             \/ knights(pl, C) \cap knight_attacks(sq) # {}
             \/ diags(pl, C) \cap bishop_attacks(sq, blockers) # {}
             \/ orthos(pl, C) \cap rook_attacks(sq, blockers) # {}
             \/ king(pl, C) \cap king_attacks(sq) # {}

sq_attacked(b, sq, c) == sq_attacked_by(b, c, sq)

any_attacked(b, squares, by) ==
    IF by = flip(b.side) THEN squares \cap b.threats.all # {}
    ELSE \E sq \in squares : sq_attacked(b, sq, by)

-----------------------------------------------------------------------------
(* make_move_base / unmake_move_base.                                      *)

PieceArrayEmpty == [sq \in Squares |-> NoPiece]
NoContHist == [piece |-> NoPiece, square |-> NoSq]

\* Undo::default()
UndoDefault ==
    [castle_perm |-> CastlingNone, ep_square |-> NoSq, fifty_move_counter |-> 0,
     threats |-> ThreatsDefault, cont_hist_index |-> NoContHist,
     piece_layout |-> LayoutNull, piece_array |-> PieceArrayEmpty,
     key |-> {}, pawn_key |-> {}, non_pawn_key |-> [c \in {White, Black} |-> {}],
     minor_key |-> {}, major_key |-> {}]

\* the Undo snapshot make_move_base takes before touching the board
SavedState(b, m) ==
    [castle_perm |-> b.castle_perm, ep_square |-> b.ep_sq,
     fifty_move_counter |-> b.fifty_move_counter, threats |-> b.threats,
     cont_hist_index |-> [piece |-> moved_piece(b, m), square |-> history_to_square(m)],
     piece_layout |-> b.pieces, piece_array |-> b.piece_array,
     key |-> b.key, pawn_key |-> b.pawn_key, non_pawn_key |-> b.non_pawn_key,
     minor_key |-> b.minor_key, major_key |-> b.major_key]

\* The rook's move and the king's destination of a castling move, from the
\* first castling right whose rook square is the move's `to`.
CastleSquares(cp, to) ==
    CASE to = cp.wk -> [to |-> G1, rook_from |-> cp.wk, rook_to |-> F1]
      [] to # cp.wk /\ to = cp.wq -> [to |-> C1, rook_from |-> cp.wq, rook_to |-> D1]
      [] to # cp.wk /\ to # cp.wq /\ to = cp.bk ->
            [to |-> G8, rook_from |-> cp.bk, rook_to |-> F8]
      [] to # cp.wk /\ to # cp.wq /\ to # cp.bk /\ to = cp.bq ->
            [to |-> C8, rook_from |-> cp.bq, rook_to |-> D8]

\* MakeFirstUpdate without the castling exemption: the king-takes-rook
\* encoding reaches the buffer as a plain move.  C5 must reject it.
MakeFirstUpdate_castle_as_move(m, piece) ==
    IF is_promo(m)
    THEN ub_clear_piece(UpdateBufferDefault, m.from, piece)
    ELSE ub_move_piece(UpdateBufferDefault, m.from, m.to, piece)

\* The first buffer entry: the moved piece leaves `from` (and, unless it
\* promotes or castles, arrives on `to`).
MakeFirstUpdate(m, piece) ==
    IF ~is_castle(m)
    THEN (IF is_promo(m)
          THEN ub_clear_piece(UpdateBufferDefault, m.from, piece)
          ELSE ub_move_piece(UpdateBufferDefault, m.from, m.to, piece))
    ELSE UpdateBufferDefault

\* The en passant and castling branches: [pieces, ub, to].
MakeSpecial(b, m, piece, ub) ==
    LET from == m.from
        to == m.to
    IN  IF is_ep(m)
        THEN LET clear_at == IF b.side = White THEN to - 8 ELSE to + 8
                 to_clear == PieceNew(flip(b.side), "Pawn")
             IN  [pieces |-> clear_piece_at(b.pieces, clear_at, to_clear),
                  ub |-> ub_clear_piece(ub, clear_at, to_clear),
                  to |-> to]
        ELSE IF is_castle(m)
        THEN LET pl1 == clear_piece_at(b.pieces, from, piece)
                 cs == CastleSquares(b.castle_perm, to)
                 ub1 == IF from # cs.to THEN ub_move_piece(ub, from, cs.to, piece) ELSE ub
                 rook == PieceNew(b.side, "Rook")
             IN  IF cs.rook_from # cs.rook_to
                 THEN [pieces |-> layout_move_piece(pl1, cs.rook_from, cs.rook_to, rook),
                       ub |-> ub_move_piece(ub1, cs.rook_from, cs.rook_to, rook),
                       to |-> cs.to]
                 ELSE [pieces |-> pl1, ub |-> ub1, to |-> cs.to]
        ELSE [pieces |-> b.pieces, ub |-> ub, to |-> to]

\* fifty_move_counter after the move (u8 arithmetic)
MakeFifty(b, piece, captured) ==
    IF captured # NoPiece \/ piece_type[piece] = "Pawn" THEN 0
    ELSE (b.fifty_move_counter + 1) % 256

\* MakeEpSq without the adjacent-enemy-pawn test: every double push sets the
\* square.  C10 must reject it.
MakeEpSq_every_double_push(b, m, piece, pl) ==
    IF piece_type[piece] = "Pawn" /\ is_double_pawn_push(b, m)
    THEN (IF b.side = White THEN m.from + 8 ELSE m.from - 8)
    ELSE NoSq

\* ep_sq after the move; pl is the layout with the captured piece removed
MakeEpSq(b, m, piece, pl) ==
    IF /\ piece_type[piece] = "Pawn"
       /\ is_double_pawn_push(b, m)
       /\ (west_one({m.to}) \cup east_one({m.to}))
              \cap all_pawns(pl) \cap occupied_co(pl, flip(b.side)) # {}
    THEN (IF b.side = White THEN m.from + 8 ELSE m.from - 8)
    ELSE NoSq

\* the moved piece arrives: promotion, castling king, or plain move
MakePlace(pl, m, to, piece, c) ==
    IF promotion_type(m) # NoPromo
    THEN set_piece_at(clear_piece_at(pl, m.from, piece), to, PieceNew(c, promotion_type(m)))
    ELSE IF is_castle(m)
    THEN set_piece_at(pl, to, piece)
    ELSE layout_move_piece(pl, m.from, to, piece)

\* The board as it stands when the legality test runs, with the buffer and
\* the final `to`.
MakeCaptureAndPlace(b, m, piece, captured, sp) ==
    LET pl2 == IF captured # NoPiece THEN clear_piece_at(sp.pieces, sp.to, captured) ELSE sp.pieces
        ub2 == IF captured # NoPiece THEN ub_clear_piece(sp.ub, sp.to, captured) ELSE sp.ub
        ub3 == IF promotion_type(m) # NoPromo
               THEN ub_add_piece(ub2, sp.to, PieceNew(b.side, promotion_type(m)))
               ELSE ub2
    IN  [board |-> [b EXCEPT !.ep_sq = MakeEpSq(b, m, piece, pl2),
                             !.fifty_move_counter = MakeFifty(b, piece, captured),
                             !.pieces = MakePlace(pl2, m, sp.to, piece, b.side),
                             !.side = flip(b.side)],
         ub |-> ub3, to |-> sp.to]

MakeApply(b, m) ==
    MakeCaptureAndPlace(b, m, moved_piece(b, m), captured_piece(b, m),
        MakeSpecial(b, m, moved_piece(b, m), MakeFirstUpdate(m, moved_piece(b, m))))

\* the legality test read off the threats of the position before the move,
\* which make has not regenerated yet.  C3 must reject it.
MakeLeavesKingAttacked_stale_threats(b2) == king_sq(b2, flip(b2.side)) \in b2.threats.all

\* the legality test: is the mover's king attacked by the new side to move?
MakeLeavesKingAttacked(b2) == sq_attacked(b2, king_sq(b2, flip(b2.side)), b2.side)

\* a rollback that forgets the fifty-move counter.  C2 must reject it.
MakeRollback_keeps_fifty(b2, saved_state) ==
    [b2 EXCEPT !.side = flip(b2.side),
               !.ep_sq = saved_state.ep_square,
               !.pieces = saved_state.piece_layout]

\* the early return of an illegal move: what is put back from the snapshot
MakeRollback(b2, saved_state) ==
    [b2 EXCEPT !.side = flip(b2.side),
               !.ep_sq = saved_state.ep_square,
               !.fifty_move_counter = saved_state.fifty_move_counter,
               !.pieces = saved_state.piece_layout]

\* the rights update without new_rights.remove(to): a captured rook keeps its
\* right.  C9 must reject it.
MakeCastlingRights_no_remove(cp, piece, from, to) ==
    IF piece = "WR"
    THEN (IF from = cp.wk THEN [cp EXCEPT !.wk = NoSq]
          ELSE IF from = cp.wq THEN [cp EXCEPT !.wq = NoSq]
          ELSE cp)
    ELSE IF piece = "BR"
    THEN (IF from = cp.bk THEN [cp EXCEPT !.bk = NoSq]
          ELSE IF from = cp.bq THEN [cp EXCEPT !.bq = NoSq]
          ELSE cp)
    ELSE IF piece = "WK" THEN [cp EXCEPT !.wk = NoSq, !.wq = NoSq]
    ELSE IF piece = "BK" THEN [cp EXCEPT !.bk = NoSq, !.bq = NoSq]
    ELSE cp

\* the castling rights after the move
MakeCastlingRights(cp, piece, from, to) ==
    LET r1 == IF piece = "WR"
              THEN (IF from = cp.wk THEN [cp EXCEPT !.wk = NoSq]
                    ELSE IF from = cp.wq THEN [cp EXCEPT !.wq = NoSq]
                    ELSE cp)
              ELSE IF piece = "BR"
              THEN (IF from = cp.bk THEN [cp EXCEPT !.bk = NoSq]
                    ELSE IF from = cp.bq THEN [cp EXCEPT !.bq = NoSq]
                    ELSE cp)
              ELSE IF piece = "WK" THEN [cp EXCEPT !.wk = NoSq, !.wq = NoSq]
              ELSE IF piece = "BK" THEN [cp EXCEPT !.bk = NoSq, !.bq = NoSq]
              ELSE cp
    IN  rights_remove(r1, to)

RECURSIVE ApplySubs(_, _)
\* the loop over update_buffer.subs(): st is [K, piece_array]
ApplySubs(st, subs) ==
    IF subs = <<>> THEN st
    ELSE ApplySubs([K |-> hash_piece_keys(st.K, Head(subs).piece, Head(subs).sq),
                    piece_array |-> [st.piece_array EXCEPT ![Head(subs).sq] = NoPiece]],
                   Tail(subs))

RECURSIVE ApplyAdds(_, _)
\* the loop over update_buffer.adds()
ApplyAdds(st, adds) ==
    IF adds = <<>> THEN st
    ELSE ApplyAdds([K |-> hash_piece_keys(st.K, Head(adds).piece, Head(adds).sq),
                    piece_array |-> [st.piece_array EXCEPT ![Head(adds).sq] = Head(adds).piece]],
                   Tail(adds))

\* the key work without hashing the previous en passant square out.  C4 must
\* reject it.
MakeKeys_keeps_old_ep(b2, saved_state, new_rights, ub) ==
    LET k2 == hash_castling(b2.key, b2.castle_perm)
        k3 == IF b2.ep_sq # NoSq THEN hash_ep(k2, b2.ep_sq) ELSE k2
        k4 == hash_side(k3)
        K0 == [key |-> k4, pawn_key |-> b2.pawn_key, non_pawn_key |-> b2.non_pawn_key,
               minor_key |-> b2.minor_key, major_key |-> b2.major_key]
        st == ApplyAdds(ApplySubs([K |-> K0, piece_array |-> b2.piece_array], ub.subs), ub.adds)
    IN  [st EXCEPT !.K.key = hash_castling(@, new_rights)]

\* the key work of a legal move: ep out, castling out, ep in, side, pieces,
\* castling in.  Returns [K, piece_array].
MakeKeys(b2, saved_state, new_rights, ub) ==
    LET k1 == IF saved_state.ep_square # NoSq THEN hash_ep(b2.key, saved_state.ep_square) ELSE b2.key
        k2 == hash_castling(k1, b2.castle_perm)
        k3 == IF b2.ep_sq # NoSq THEN hash_ep(k2, b2.ep_sq) ELSE k2
        k4 == hash_side(k3)
        K0 == [key |-> k4, pawn_key |-> b2.pawn_key, non_pawn_key |-> b2.non_pawn_key,
               minor_key |-> b2.minor_key, major_key |-> b2.major_key]
        st == ApplyAdds(ApplySubs([K |-> K0, piece_array |-> b2.piece_array], ub.subs), ub.adds)
    IN  [st EXCEPT !.K.key = hash_castling(@, new_rights)]

\* the rest of make_move_base once the move is known to be legal
MakeStore(b2, new_rights, st, saved_state) ==
    WithThreats([b2 EXCEPT !.castle_perm = new_rights,
                           !.piece_array = st.piece_array,
                           !.key = st.K.key, !.pawn_key = st.K.pawn_key,
                           !.non_pawn_key = st.K.non_pawn_key,
                           !.minor_key = st.K.minor_key, !.major_key = st.K.major_key,
                           !.ply = @ + 1, !.height = @ + 1,
                           !.history = Append(@, saved_state)])

MakeFinish(b2, m, piece, to, ub, saved_state) ==
    MakeStore(b2, MakeCastlingRights(b2.castle_perm, piece, m.from, to),
              MakeKeys(b2, saved_state, MakeCastlingRights(b2.castle_perm, piece, m.from, to), ub),
              saved_state)

\* make_move_base: [ok, board, ub]
MakeLegalOrRollback(ap, m, piece, saved_state) ==
    IF MakeLeavesKingAttacked(ap.board)
    THEN [ok |-> FALSE, board |-> MakeRollback(ap.board, saved_state), ub |-> ap.ub]
    ELSE [ok |-> TRUE, board |-> MakeFinish(ap.board, m, piece, ap.to, ap.ub, saved_state),
          ub |-> ap.ub]

make_move_base(b, m) ==
    IF moved_piece(b, m) = NoPiece
    THEN [ok |-> FALSE, board |-> b, ub |-> UpdateBufferDefault]
    ELSE MakeLegalOrRollback(MakeApply(b, m), m, moved_piece(b, m), SavedState(b, m))

\* an unmake that recomputes nothing and forgets to restore the threats.  C1
\* must reject it.
unmake_move_base_keeps_threats(b) ==
    LET undo == b.history[Len(b.history)]
    IN  [b EXCEPT !.height = @ - 1, !.ply = @ - 1, !.side = flip(@),
                  !.key = undo.key, !.pawn_key = undo.pawn_key,
                  !.non_pawn_key = undo.non_pawn_key,
                  !.minor_key = undo.minor_key, !.major_key = undo.major_key,
                  !.castle_perm = undo.castle_perm, !.ep_sq = undo.ep_square,
                  !.fifty_move_counter = undo.fifty_move_counter,
                  !.pieces = undo.piece_layout,
                  !.piece_array = undo.piece_array,
                  !.history = SubSeq(@, 1, Len(@) - 1)]

\* unmake_move_base: pop the Undo and restore every snapshotted field
unmake_move_base(b) ==
    LET undo == b.history[Len(b.history)]
    IN  [b EXCEPT !.height = @ - 1, !.ply = @ - 1, !.side = flip(@),
                  !.key = undo.key, !.pawn_key = undo.pawn_key,
                  !.non_pawn_key = undo.non_pawn_key,
                  !.minor_key = undo.minor_key, !.major_key = undo.major_key,
                  !.castle_perm = undo.castle_perm, !.ep_sq = undo.ep_square,
                  !.fifty_move_counter = undo.fifty_move_counter,
                  !.threats = undo.threats, !.pieces = undo.piece_layout,
                  !.piece_array = undo.piece_array,
                  !.history = SubSeq(@, 1, Len(@) - 1)]

make_nullmove(b) ==
    LET undo == [UndoDefault EXCEPT !.ep_square = b.ep_sq, !.threats = b.threats, !.key = b.key]
        k1 == IF b.ep_sq # NoSq THEN hash_ep(b.key, b.ep_sq) ELSE b.key
    IN  WithThreats([b EXCEPT !.history = Append(@, undo), !.key = hash_side(k1),
                              !.ep_sq = NoSq, !.side = flip(@), !.ply = @ + 1, !.height = @ + 1])

\* unmake_nullmove leaving the threats of the null move in place
unmake_nullmove_keeps_threats(b) ==
    LET undo == b.history[Len(b.history)]
    IN  [b EXCEPT !.height = @ - 1, !.ply = @ - 1, !.side = flip(@),
                  !.ep_sq = undo.ep_square, !.key = undo.key,
                  !.history = SubSeq(@, 1, Len(@) - 1)]

\* unmake_nullmove: pop the Undo and restore ep_sq, threats and key
unmake_nullmove(b) ==
    LET undo == b.history[Len(b.history)]
    IN  [b EXCEPT !.height = @ - 1, !.ply = @ - 1, !.side = flip(@),
                  !.ep_sq = undo.ep_square, !.threats = undo.threats, !.key = undo.key,
                  !.history = SubSeq(@, 1, Len(@) - 1)]

\* last_move_was_nullmove: a null move's Undo has an empty piece layout
last_move_was_nullmove(b) ==
    IF b.history # <<>> THEN all_kings(b.history[Len(b.history)].piece_layout) = {} ELSE FALSE

-----------------------------------------------------------------------------
(* Move generation (src/src/board/movegen.rs).  A MoveList is the sequence *)
(* of its entries in push order.                                           *)

TACTICAL_SENTINEL == 2147483647
QUIET_SENTINEL == 2147483646

SeqMin(a, b) == IF a < b THEN a ELSE b

RECURSIVE FlattenRange(_, _, _)
FlattenRange(ss, lo, hi) ==
    IF lo > hi THEN <<>>
    ELSE IF lo = hi THEN ss[lo]
    ELSE FlattenRange(ss, lo, (lo + hi) \div 2) \o FlattenRange(ss, (lo + hi) \div 2 + 1, hi)

\* the lists of ss one after the other
Flatten(ss) == FlattenRange(ss, 1, Len(ss))

\* MoveList::push::<TACTICAL>
Entry(m, tactical) ==
    [mov |-> m, score |-> IF tactical THEN TACTICAL_SENTINEL ELSE QUIET_SENTINEL]

\* for to in targets { push(Move::new(from, to)) }
PushTargets(from, targets, tactical) ==
    LET ts == SortedSeq(targets)
    IN  [i \in 1..Len(ts) |-> Entry(MoveNew(from, ts[i]), tactical)]

\* for (from, to) in from_mask.zip(to_mask) { push(Move::new(from, to)) }
PushZip(from_mask, to_mask, tactical) ==
    LET fs == SortedSeq(from_mask)
        ts == SortedSeq(to_mask)
    IN  [i \in 1..SeqMin(Len(fs), Len(ts)) |-> Entry(MoveNew(fs[i], ts[i]), tactical)]

\* the same loop pushing one promotion per piece type of `promos`
PushZipPromos(from_mask, to_mask, promos) ==
    LET fs == SortedSeq(from_mask)
        ts == SortedSeq(to_mask)
    IN  Flatten([i \in 1..SeqMin(Len(fs), Len(ts)) |->
            [j \in 1..Len(promos) |-> Entry(MoveNewWithPromo(fs[i], ts[i], promos[j]), TRUE)]])

generate_pawn_caps(b, C, captures_only, valid_target_squares) ==
    LET our_pawns == pawns(b.pieces, C)
        theirs == their_pieces(b.pieces, C)
        attacking_west == IF C = White THEN south_east_one(theirs) \cap our_pawns
                                       ELSE north_east_one(theirs) \cap our_pawns
        attacking_east == IF C = White THEN south_west_one(theirs) \cap our_pawns
                                       ELSE north_west_one(theirs) \cap our_pawns
        valid_west == IF C = White THEN south_east_one(valid_target_squares)
                                   ELSE north_east_one(valid_target_squares)
        valid_east == IF C = White THEN south_west_one(valid_target_squares)
                                   ELSE north_west_one(valid_target_squares)
        promo_rank == IF C = White THEN RANK_7 ELSE RANK_2
        to_west(fm) == IF C = White THEN north_west_one(fm) ELSE south_west_one(fm)
        to_east(fm) == IF C = White THEN north_east_one(fm) ELSE south_east_one(fm)
        promos == IF captures_only THEN <<"Queen">> ELSE <<"Queen", "Rook", "Bishop", "Knight">>
        fm1 == (attacking_west \ promo_rank) \cap valid_west
        fm2 == (attacking_east \ promo_rank) \cap valid_east
        fm3 == attacking_west \cap promo_rank \cap valid_west
        fm4 == attacking_east \cap promo_rank \cap valid_east
    IN  PushZip(fm1, to_west(fm1), TRUE) \o PushZip(fm2, to_east(fm2), TRUE)
        \o PushZipPromos(fm3, to_west(fm3), promos) \o PushZipPromos(fm4, to_east(fm4), promos)

generate_ep(b, C) ==
    IF b.ep_sq = NoSq THEN <<>>
    ELSE LET ep_bb == {b.ep_sq}
             our_pawns == pawns(b.pieces, C)
             attacks_west == IF C = White THEN south_east_one(ep_bb) \cap our_pawns
                                          ELSE north_east_one(ep_bb) \cap our_pawns
             attacks_east == IF C = White THEN south_west_one(ep_bb) \cap our_pawns
                                          ELSE north_west_one(ep_bb) \cap our_pawns
         IN  (IF attacks_west # {}
              THEN <<Entry(MoveNewWithFlags(first(attacks_west), b.ep_sq, "EnPassant"), TRUE)>>
              ELSE <<>>)
             \o (IF attacks_east # {}
                 THEN <<Entry(MoveNewWithFlags(first(attacks_east), b.ep_sq, "EnPassant"), TRUE)>>
                 ELSE <<>>)

\* the single and double pushes shared (as duplicated code) by
\* generate_pawn_forward and generate_pawn_quiet
PawnPushes(b, C, valid_target_squares) ==
    LET start_rank == IF C = White THEN RANK_2 ELSE RANK_7
        promo_rank == IF C = White THEN RANK_7 ELSE RANK_2
        sh(S, n) == IF C = White THEN shr(S, n) ELSE shl(S, n)
        fwd(S) == IF C = White THEN north_one(S) ELSE south_one(S)
        pushable_pawns == pawns(b.pieces, C) \cap sh(empty(b.pieces), 8)
        double_pushable_pawns == pushable_pawns \cap sh(empty(b.pieces), 16) \cap start_rank
        promoting_pawns == pushable_pawns \cap promo_rank
        fm1 == (pushable_pawns \ promoting_pawns) \cap sh(valid_target_squares, 8)
        fm2 == double_pushable_pawns \cap sh(valid_target_squares, 16)
    IN  PushZip(fm1, fwd(fm1), FALSE) \o PushZip(fm2, fwd(fwd(fm2)), FALSE)

\* the push promotions (generate_forward_promos, and the tail of
\* generate_pawn_forward)
ForwardPromos(b, C, promos, valid_target_squares) ==
    LET promo_rank == IF C = White THEN RANK_7 ELSE RANK_2
        sh(S, n) == IF C = White THEN shr(S, n) ELSE shl(S, n)
        fwd(S) == IF C = White THEN north_one(S) ELSE south_one(S)
        pushable_pawns == pawns(b.pieces, C) \cap sh(empty(b.pieces), 8)
        promoting_pawns == pushable_pawns \cap promo_rank
        fm == promoting_pawns \cap sh(valid_target_squares, 8)
    IN  PushZipPromos(fm, fwd(fm), promos)

generate_pawn_forward(b, C, valid_target_squares) ==
    PawnPushes(b, C, valid_target_squares)
    \o ForwardPromos(b, C, <<"Queen", "Knight", "Rook", "Bishop">>, valid_target_squares)

\* push promotions to a queen only, whatever the mode.  C7 must reject it.
generate_forward_promos_queen_only(b, C, captures_only, valid_target_squares) ==
    ForwardPromos(b, C, <<"Queen">>, valid_target_squares)

generate_forward_promos(b, C, captures_only, valid_target_squares) ==
    ForwardPromos(b, C,
                  IF captures_only THEN <<"Queen">> ELSE <<"Queen", "Knight", "Rook", "Bishop">>,
                  valid_target_squares)

generate_pawn_quiet(b, C, valid_target_squares) == PawnPushes(b, C, valid_target_squares)

try_generate_frc_castling(b, C, king_square, castling_sq, king_dst, rook_dst, occ) ==
    LET king_path == RAY_BETWEEN[king_square][king_dst]
        rook_path == RAY_BETWEEN[king_square][castling_sq]
        relevant_occupied == Xor(Xor(occ, {king_square}), {castling_sq})
    IN  IF /\ relevant_occupied \cap (king_path \cup rook_path \cup {king_dst} \cup {rook_dst}) = {}
           /\ ~any_attacked(b, king_path, flip(C))
        THEN <<Entry(MoveNewWithFlags(king_square, castling_sq, "Castle"), FALSE)>>
        ELSE <<>>

generate_castling_moves_for(b, C, frc) ==
    LET occ == occupied(b.pieces)
    IN  IF frc
        THEN LET king_square == king_sq(b, C)
             IN  IF sq_attacked(b, king_square, flip(C)) THEN <<>>
                 ELSE (IF kingside(b.castle_perm, C) # NoSq
                       THEN try_generate_frc_castling(b, C, king_square, kingside(b.castle_perm, C),
                                relative_to(G1, C), relative_to(F1, C), occ)
                       ELSE <<>>)
                      \o (IF queenside(b.castle_perm, C) # NoSq
                          THEN try_generate_frc_castling(b, C, king_square, queenside(b.castle_perm, C),
                                   relative_to(C1, C), relative_to(D1, C), occ)
                          ELSE <<>>)
        ELSE LET k_freespace == IF C = White THEN {F1, G1} ELSE {F8, G8}
                 q_freespace == IF C = White THEN {B1, C1, D1} ELSE {B8, C8, D8}
                 from == relative_to(E1, C)
                 k_to == relative_to(H1, C)
                 q_to == relative_to(A1, C)
                 k_thru == relative_to(F1, C)
                 q_thru == relative_to(D1, C)
             IN  (IF /\ kingside(b.castle_perm, C) # NoSq
                     /\ occ \cap k_freespace = {}
                     /\ ~sq_attacked_by(b, flip(C), from)
                     /\ ~sq_attacked_by(b, flip(C), k_thru)
                  THEN <<Entry(MoveNewWithFlags(from, k_to, "Castle"), FALSE)>>
                  ELSE <<>>)
                 \o (IF /\ queenside(b.castle_perm, C) # NoSq
                        /\ occ \cap q_freespace = {}
                        /\ ~sq_attacked_by(b, flip(C), from)
                        /\ ~sq_attacked_by(b, flip(C), q_thru)
                     THEN <<Entry(MoveNewWithFlags(from, q_to, "Castle"), FALSE)>>
                     ELSE <<>>)

\* valid_target_squares: block or capture a single checker
ValidTargetSquares(b, our_king_sq) ==
    IF in_check(b)
    THEN RAY_BETWEEN[our_king_sq][first(b.threats.checkers)] \cup b.threats.checkers
    ELSE Squares

generate_moves_for(b, C, frc) ==
    LET pl == b.pieces
        theirs == their_pieces(pl, C)
        freespace == empty(pl)
        our_king_sq == first(king(pl, C))
        blockers == occupied(pl)
        king_moves == king_attacks(our_king_sq) \ b.threats.all
        valid == ValidTargetSquares(b, our_king_sq)
        kn == SortedSeq(knights(pl, C))
        dg == SortedSeq(diags(pl, C))
        og == SortedSeq(orthos(pl, C))
    IN  IF Cardinality(b.threats.checkers) > 1
        THEN PushTargets(our_king_sq, king_moves \cap theirs, TRUE)
             \o PushTargets(our_king_sq, king_moves \cap freespace, FALSE)
        ELSE generate_pawn_forward(b, C, valid)
             \o generate_pawn_caps(b, C, FALSE, valid)
             \o generate_ep(b, C)
             \o Flatten([i \in 1..Len(kn) |->
                    LET moves == knight_attacks(kn[i]) \cap valid
                    IN  PushTargets(kn[i], moves \cap theirs, TRUE)
                        \o PushTargets(kn[i], moves \cap freespace, FALSE)])
             \o PushTargets(our_king_sq, king_moves \cap theirs, TRUE)
             \o PushTargets(our_king_sq, king_moves \cap freespace, FALSE)
             \o Flatten([i \in 1..Len(dg) |->
                    LET moves == bishop_attacks(dg[i], blockers) \cap valid
                    IN  PushTargets(dg[i], moves \cap theirs, TRUE)
                        \o PushTargets(dg[i], moves \cap freespace, FALSE)])
             \o Flatten([i \in 1..Len(og) |->
                    LET moves == rook_attacks(og[i], blockers) \cap valid
                    IN  PushTargets(og[i], moves \cap theirs, TRUE)
                        \o PushTargets(og[i], moves \cap freespace, FALSE)])
             \o (IF ~in_check(b) THEN generate_castling_moves_for(b, C, frc) ELSE <<>>)

generate_moves(b, frc) == generate_moves_for(b, b.side, frc)

generate_captures_for(b, C, captures_only) ==
    LET pl == b.pieces
        theirs == their_pieces(pl, C)
        our_king_sq == first(king(pl, C))
        blockers == occupied(pl)
        king_moves == king_attacks(our_king_sq) \ b.threats.all
        valid == ValidTargetSquares(b, our_king_sq)
        kn == SortedSeq(knights(pl, C))
        dg == SortedSeq(diags(pl, C))
        og == SortedSeq(orthos(pl, C))
    IN  IF Cardinality(b.threats.checkers) > 1
        THEN PushTargets(our_king_sq, king_moves \cap theirs, TRUE)
        ELSE generate_forward_promos(b, C, captures_only, valid)
             \o generate_pawn_caps(b, C, captures_only, valid)
             \o generate_ep(b, C)
             \o Flatten([i \in 1..Len(kn) |->
                    PushTargets(kn[i], knight_attacks(kn[i]) \cap valid \cap theirs, TRUE)])
             \o PushTargets(our_king_sq, king_moves \cap theirs, TRUE)
             \o Flatten([i \in 1..Len(dg) |->
                    PushTargets(dg[i], bishop_attacks(dg[i], blockers) \cap valid \cap theirs, TRUE)])
             \o Flatten([i \in 1..Len(og) |->
                    PushTargets(og[i], rook_attacks(og[i], blockers) \cap valid \cap theirs, TRUE)])

generate_captures(b, captures_only) == generate_captures_for(b, b.side, captures_only)

generate_quiets_for(b, C, frc) ==
    LET pl == b.pieces
        our_king_sq == first(king(pl, C))
        blockers == occupied(pl)
        king_moves == king_attacks(our_king_sq) \ b.threats.all
        valid == ValidTargetSquares(b, our_king_sq)
        kn == SortedSeq(knights(pl, C))
        dg == SortedSeq(diags(pl, C))
        og == SortedSeq(orthos(pl, C))
    IN  IF Cardinality(b.threats.checkers) > 1
        THEN PushTargets(our_king_sq, king_moves \cap empty(pl), FALSE)
        ELSE generate_pawn_quiet(b, C, valid)
             \o Flatten([i \in 1..Len(kn) |->
                    PushTargets(kn[i], (knight_attacks(kn[i]) \cap valid) \ blockers, FALSE)])
             \o PushTargets(our_king_sq, king_moves \ blockers, FALSE)
             \o Flatten([i \in 1..Len(dg) |->
                    PushTargets(dg[i], (bishop_attacks(dg[i], blockers) \cap valid) \ blockers, FALSE)])
             \o Flatten([i \in 1..Len(og) |->
                    PushTargets(og[i], (rook_attacks(og[i], blockers) \cap valid) \ blockers, FALSE)])
             \o (IF ~in_check(b) THEN generate_castling_moves_for(b, C, frc) ELSE <<>>)

\* generate_quiets appends to the list it is given
generate_quiets(b, move_list, frc) == move_list \o generate_quiets_for(b, b.side, frc)

-----------------------------------------------------------------------------
(* Pseudo-legality of a stored move.                                       *)

is_pseudo_legal_castling(b, m) ==
    LET moved == b.piece_array[m.from]
        home_rank == IF b.side = White THEN RANK_1 ELSE RANK_8
    IN  IF moved = NoPiece THEN FALSE
        ELSE IF piece_type[moved] # "King" THEN FALSE
        ELSE IF {m.to} \cap home_rank = {} THEN FALSE
        ELSE IF {m.from} \cap home_rank = {} THEN FALSE
        ELSE IF m.to > m.from /\ m.to # kingside(b.castle_perm, b.side) THEN FALSE
        ELSE IF ~(m.to > m.from) /\ m.to # queenside(b.castle_perm, b.side) THEN FALSE
        ELSE LET king_dst == IF m.to > m.from THEN relative_to(G1, b.side) ELSE relative_to(C1, b.side)
                 rook_dst == IF m.to > m.from THEN relative_to(F1, b.side) ELSE relative_to(D1, b.side)
                 king_path == RAY_BETWEEN[m.from][king_dst]
                 rook_path == RAY_BETWEEN[m.from][m.to]
                 castle_occ == Xor(Xor(occupied(b.pieces), {m.from}), {m.to})
             IN  /\ castle_occ \cap (king_path \cup rook_path \cup {king_dst} \cup {rook_dst}) = {}
                 /\ ~any_attacked(b, king_path \cup {m.from}, flip(b.side))

is_pseudo_legal(b, m) ==
    LET from == m.from
        to == m.to
        moved == b.piece_array[from]
        captured == IF is_castle(m) THEN NoPiece ELSE b.piece_array[to]
        is_pawn_double_push == is_double_pawn_push(b, m)
    IN  IF moved = NoPiece THEN FALSE
        ELSE IF colour[moved] # b.side THEN FALSE
        ELSE IF captured # NoPiece /\ colour[captured] = b.side THEN FALSE
        ELSE IF piece_type[moved] # "Pawn" /\ (is_pawn_double_push \/ is_ep(m) \/ is_promo(m)) THEN FALSE
        ELSE IF piece_type[moved] # "King" /\ is_castle(m) THEN FALSE
        ELSE IF captured # NoPiece /\ is_pawn_double_push THEN FALSE
        ELSE IF is_castle(m) THEN is_pseudo_legal_castling(b, m)
        ELSE IF piece_type[moved] = "Pawn"
        THEN LET should_be_promoting == to > H7 \/ to < A2
             IN  IF should_be_promoting /\ ~is_promo(m) THEN FALSE
                 ELSE IF is_ep(m) THEN to = b.ep_sq
                 ELSE IF is_pawn_double_push
                 THEN (IF RankOf(relative_to(from, b.side)) # 1 THEN FALSE
                       ELSE LET one_forward == pawn_push(from, b.side)
                            IN  IF one_forward = NoSq THEN FALSE
                                ELSE /\ b.piece_array[one_forward] = NoPiece
                                     /\ to = pawn_push(one_forward, b.side))
                 ELSE IF captured = NoPiece THEN to = pawn_push(from, b.side)
                 ELSE pawn_attacks(b.side, {from}) \cap {to} # {}
        ELSE {to} \cap attacks_by_type(piece_type[moved], from, occupied(b.pieces)) # {}

-----------------------------------------------------------------------------
(* Position load.  A FEN string is the sequence of its characters.         *)

DigitVal ==
    ("0" :> 0) @@ ("1" :> 1) @@ ("2" :> 2) @@ ("3" :> 3) @@ ("4" :> 4) @@
    ("5" :> 5) @@ ("6" :> 6) @@ ("7" :> 7) @@ ("8" :> 8) @@ ("9" :> 9)
LowerFile ==
    ("a" :> 0) @@ ("b" :> 1) @@ ("c" :> 2) @@ ("d" :> 3) @@
    ("e" :> 4) @@ ("f" :> 5) @@ ("g" :> 6) @@ ("h" :> 7)
UpperFile ==
    ("A" :> 0) @@ ("B" :> 1) @@ ("C" :> 2) @@ ("D" :> 3) @@
    ("E" :> 4) @@ ("F" :> 5) @@ ("G" :> 6) @@ ("H" :> 7)
FenPiece ==
    ("P" :> "WP") @@ ("R" :> "WR") @@ ("N" :> "WN") @@ ("B" :> "WB") @@ ("Q" :> "WQ") @@
    ("K" :> "WK") @@ ("p" :> "BP") @@ ("r" :> "BR") @@ ("n" :> "BN") @@ ("b" :> "BB") @@
    ("q" :> "BQ") @@ ("k" :> "BK")
UpperChars ==
    {"A", "B", "C", "D", "E", "F", "G", "H", "I", "J", "K", "L", "M", "N", "O", "P", "Q",
     "R", "S", "T", "U", "V", "W", "X", "Y", "Z"}
LowerChars ==
    {"a", "b", "c", "d", "e", "f", "g", "h", "i", "j", "k", "l", "m", "n", "o", "p", "q",
     "r", "s", "t", "u", "v", "w", "x", "y", "z"}

\* Board::reset (the per-class keys non_pawn_key, minor_key and major_key
\* are not among the fields it assigns)
reset(b) ==
    [b EXCEPT !.pieces = LayoutNull, !.piece_array = PieceArrayEmpty, !.side = White,
              !.ep_sq = NoSq, !.fifty_move_counter = 0, !.height = 0, !.ply = 0,
              !.castle_perm = CastlingNone, !.key = {}, !.pawn_key = {},
              !.threats = ThreatsDefault, !.history = <<>>]

\* Board::new
BoardNew ==
    [pieces |-> LayoutNull, piece_array |-> PieceArrayEmpty, side |-> White, ep_sq |-> NoSq,
     castle_perm |-> CastlingNone, fifty_move_counter |-> 0, ply |-> 0,
     key |-> {}, pawn_key |-> {}, non_pawn_key |-> [c \in {White, Black} |-> {}],
     minor_key |-> {}, major_key |-> {}, threats |-> ThreatsDefault,
     height |-> 0, history |-> <<>>]

add_piece(b, sq, p) ==
    [b EXCEPT !.pieces = set_piece_at(@, sq, p), !.piece_array[sq] = p]

\* position of the first c in chars from position i on, 0 if there is none
IndexOf(chars, c, i) ==
    IF \E j \in i..Len(chars) : chars[j] = c
    THEN Min({j \in i..Len(chars) : chars[j] = c})
    ELSE 0

\* slice::split on a separator character
RECURSIVE SplitOn(_, _)
SplitOn(chars, c) ==
    LET i == IndexOf(chars, c, 1)
    IN  IF i = 0 THEN <<chars>>
        ELSE <<SubSeq(chars, 1, i - 1)>> \o SplitOn(SubSeq(chars, i + 1, Len(chars)), c)

\* str::parse of an unsigned number below `limit`, one leading "+" allowed: -1
\* when it fails
RECURSIVE ParseDigits(_, _, _)
ParseDigits(chars, acc, limit) ==
    IF chars = <<>> THEN acc
    ELSE IF Head(chars) \notin DOMAIN DigitVal THEN -1
    ELSE IF acc * 10 + DigitVal[Head(chars)] >= limit THEN -1
    ELSE ParseDigits(Tail(chars), acc * 10 + DigitVal[Head(chars)], limit)
ParseUnsigned(chars, limit) ==
    IF chars = <<>> THEN -1
    ELSE IF Head(chars) = "+"
    THEN (IF Len(chars) = 1 THEN -1 ELSE ParseDigits(Tail(chars), 0, limit))
    ELSE ParseDigits(chars, 0, limit)

\* One character of the board part: st is [status, b, rank, file]; nothing
\* is read once the loop has been left.
FenBoardChar(st, c) ==
    IF st.status # "Ok" THEN st
    ELSE IF c \in DOMAIN FenPiece
    THEN [st EXCEPT !.b = add_piece(@, from_rank_file(st.rank, st.file), FenPiece[c]),
                    !.file = IF @ + 1 > 7 THEN 7 ELSE @ + 1]
    ELSE IF c \in {"1", "2", "3", "4", "5", "6", "7", "8"}
    THEN [st EXCEPT !.file = IF @ + DigitVal[c] > 7 THEN 7 ELSE @ + DigitVal[c]]
    ELSE IF c = "/"
    THEN (IF st.rank = 0 THEN [st EXCEPT !.status = "Panic"]
          ELSE [st EXCEPT !.rank = @ - 1, !.file = 0])
    ELSE [st EXCEPT !.status = "Err"]

RECURSIVE FenBoardRange(_, _, _, _)
\* the characters lo..hi in order, the range halved at each call; a range
\* entered after the loop has been left is skipped
FenBoardRange(st, chars, lo, hi) ==
    IF lo > hi \/ st.status # "Ok" THEN st
    ELSE IF lo = hi THEN FenBoardChar(st, chars[lo])
    ELSE FenBoardRange(FenBoardRange(st, chars, lo, (lo + hi) \div 2),
                       chars, (lo + hi) \div 2 + 1, hi)

\* The loop over the board part.
FenBoardLoop(st, chars) == FenBoardRange(st, chars, 1, Len(chars))

\* the field info_parts.next() gives when the string has no more fields (None)
NoPart == <<"None">>

\* the bytes below b'a' and below b'1' among the characters of the inputs: a
\* u8 subtraction of b'a' resp. b'1' from one of them overflows
BelowLowerA ==
    UpperChars \cup DOMAIN DigitVal \cup {"+", "-", ".", "/", ":", "=", "?", "_"}
BelowDigitOne == {"+", "-", ".", "/", "0"}

\* each setter returns [status, b].  The status is "Ok", "Err" (an error
\* value is returned), "Panic" (the call aborts), or "OkWrapped" resp.
\* "ErrWrapped" when an integer operation overflowed on the way: a build with
\* overflow checks aborts there, a build without them wraps and goes on to
\* Ok resp. Err with the Board given.
set_side(b, part) ==
    IF part = <<"w">> THEN [status |-> "Ok", b |-> [b EXCEPT !.side = White]]
    ELSE IF part = <<"b">> THEN [status |-> "Ok", b |-> [b EXCEPT !.side = Black]]
    ELSE [status |-> "Err", b |-> b]

RECURSIVE StandardCastlingLoop(_, _)
StandardCastlingLoop(st, chars) ==
    IF chars = <<>> THEN st
    ELSE LET c == Head(chars)
         IN  IF c = "K" THEN StandardCastlingLoop([st EXCEPT !.b.castle_perm.wk = H1], Tail(chars))
             ELSE IF c = "Q" THEN StandardCastlingLoop([st EXCEPT !.b.castle_perm.wq = A1], Tail(chars))
             ELSE IF c = "k" THEN StandardCastlingLoop([st EXCEPT !.b.castle_perm.bk = H8], Tail(chars))
             ELSE IF c = "q" THEN StandardCastlingLoop([st EXCEPT !.b.castle_perm.bq = A8], Tail(chars))
             ELSE [st EXCEPT !.status = "Err"]

RECURSIVE ShredderCastlingLoop(_, _, _, _)
ShredderCastlingLoop(st, chars, white_king, black_king) ==
    IF chars = <<>> THEN st
    ELSE LET c == Head(chars)
         IN  IF c \in UpperChars
             THEN (IF c \notin DOMAIN UpperFile THEN [st EXCEPT !.status = "Panic"]
                   ELSE IF UpperFile[c] = FileOf(white_king) THEN [st EXCEPT !.status = "Err"]
                   ELSE IF UpperFile[c] > FileOf(white_king)
                   THEN ShredderCastlingLoop(
                            [st EXCEPT !.b.castle_perm.wk = from_rank_file(0, UpperFile[c])],
                            Tail(chars), white_king, black_king)
                   ELSE ShredderCastlingLoop(
                            [st EXCEPT !.b.castle_perm.wq = from_rank_file(0, UpperFile[c])],
                            Tail(chars), white_king, black_king))
             ELSE IF c \in LowerChars
             THEN (IF c \notin DOMAIN LowerFile THEN [st EXCEPT !.status = "Panic"]
                   ELSE IF LowerFile[c] = FileOf(black_king) THEN [st EXCEPT !.status = "Err"]
                   ELSE IF LowerFile[c] > FileOf(black_king)
                   THEN ShredderCastlingLoop(
                            [st EXCEPT !.b.castle_perm.bk = from_rank_file(7, LowerFile[c])],
                            Tail(chars), white_king, black_king)
                   ELSE ShredderCastlingLoop(
                            [st EXCEPT !.b.castle_perm.bq = from_rank_file(7, LowerFile[c])],
                            Tail(chars), white_king, black_king))
             ELSE [st EXCEPT !.status = "Err"]

set_castling(b, part, frc) ==
    IF part = NoPart THEN [status |-> "Err", b |-> b]
    ELSE IF part = <<"-">> THEN [status |-> "Ok", b |-> [b EXCEPT !.castle_perm = CastlingNone]]
    ELSE IF ~frc THEN StandardCastlingLoop([status |-> "Ok", b |-> b], part)
    ELSE IF king(b.pieces, White) = {} \/ king(b.pieces, Black) = {}
    THEN [status |-> "Panic", b |-> b]
    ELSE LET white_king == king_sq(b, White)
             black_king == king_sq(b, Black)
         IN  IF RankOf(white_king) # 0 /\ \E i \in 1..Len(part) : part[i] \in UpperChars
             THEN [status |-> "Err", b |-> b]
             ELSE IF RankOf(black_king) # 7 /\ \E i \in 1..Len(part) : part[i] \in LowerChars
             THEN [status |-> "Err", b |-> b]
             ELSE ShredderCastlingLoop([status |-> "Ok", b |-> b], part, white_king, black_king)

set_ep(b, part) ==
    IF part = <<"-">> THEN [status |-> "Ok", b |-> [b EXCEPT !.ep_sq = NoSq]]
    ELSE IF Len(part) # 2 THEN [status |-> "Err", b |-> b]
    ELSE IF part[1] \in BelowLowerA \/ part[2] \in BelowDigitOne
    THEN [status |-> "ErrWrapped", b |-> b]
    ELSE IF part[1] \notin DOMAIN LowerFile \/ part[2] \notin {"1", "2", "3", "4", "5", "6", "7", "8"}
    THEN [status |-> "Err", b |-> b]
    ELSE [status |-> "Ok",
          b |-> [b EXCEPT !.ep_sq = from_rank_file(DigitVal[part[2]] - 1, LowerFile[part[1]])]]

set_halfmove(b, part) ==
    LET n == ParseUnsigned(part, 256)
    IN  IF n < 0 THEN [status |-> "Err", b |-> b]
        ELSE [status |-> "Ok", b |-> [b EXCEPT !.fifty_move_counter = n]]

\* (fullmove_number - 1) * 2 in usize: 0 - 1 overflows, and wraps to
\* 2^64 - 2.  A usize of 2^63 or more is written as the negative number with
\* the same 64 bits: -2 stands for 2^64 - 2 and -1 for 2^64 - 1.
set_fullmove(b, part) ==
    LET n == ParseUnsigned(part, 1000000)
    IN  IF n < 0 THEN [status |-> "Err", b |-> b]
        ELSE IF n = 0
        THEN [status |-> "OkWrapped",
              b |-> [b EXCEPT !.ply = (IF b.side = Black THEN -1 ELSE -2)]]
        ELSE [status |-> "Ok",
              b |-> [b EXCEPT !.ply = (n - 1) * 2 + (IF b.side = Black THEN 1 ELSE 0)]]

\* the keys and threats a load derives from the position it has set up
WithKeys(b, K) ==
    [b EXCEPT !.key = K.key, !.pawn_key = K.pawn_key, !.non_pawn_key = K.non_pawn_key,
              !.minor_key = K.minor_key, !.major_key = K.major_key]

LoadFinish(b) == WithThreats(WithKeys(b, generate_pos_keys(b)))

\* info_parts.next(): the i-th field after the board, NoPart when missing
Part(info_parts, i) == IF i <= Len(info_parts) THEN info_parts[i] ELSE NoPart

\* The fields of set_from_fen after the board, last to first; each stage is
\* skipped once an earlier one has failed (the `?` early returns).
FenKeysAndThreats(s) ==
    IF s.status \in {"Ok", "OkWrapped"} THEN [status |-> s.status, b |-> LoadFinish(s.b)]
    ELSE s

FenFullmove(s, info_parts) ==
    FenKeysAndThreats(IF s.status = "Ok" THEN set_fullmove(s.b, Part(info_parts, 5)) ELSE s)

FenHalfmove(s, info_parts) ==
    FenFullmove(IF s.status = "Ok" THEN set_halfmove(s.b, Part(info_parts, 4)) ELSE s, info_parts)

FenEp(s, info_parts) ==
    FenHalfmove(IF s.status = "Ok" THEN set_ep(s.b, Part(info_parts, 3)) ELSE s, info_parts)

FenCastling(s, info_parts, frc) ==
    FenEp(IF s.status = "Ok" THEN set_castling(s.b, Part(info_parts, 2), frc) ELSE s, info_parts)

FenSide(s, info_parts, frc) ==
    FenCastling(IF s.status = "Ok" THEN set_side(s.b, Part(info_parts, 1))
                ELSE [status |-> s.status, b |-> s.b],
                info_parts, frc)

\* the characters outside ASCII among those of the inputs, each written as
\* its code point
NonAscii == {"U+00E9"}

\* set_from_fen: [status, b], the status as for the setters
set_from_fen(b, fen, frc) ==
    LET split_idx == IndexOf(fen, " ", 1)
    IN  IF \E i \in DOMAIN fen : fen[i] \in NonAscii THEN [status |-> "Err", b |-> b]
        ELSE IF split_idx = 0 THEN [status |-> "Err", b |-> reset(b)]
        ELSE FenSide(FenBoardLoop([status |-> "Ok", b |-> reset(b), rank |-> 7, file |-> 0],
                                  SubSeq(fen, 1, split_idx - 1)),
                     SplitOn(SubSeq(fen, split_idx + 1, Len(fen)), " "), frc)

-----------------------------------------------------------------------------
(* Chess960 start positions by Scharnagl number.                           *)

KnightSelection ==
    <<<<0, 1>>, <<0, 2>>, <<0, 3>>, <<0, 4>>, <<1, 2>>,
      <<1, 3>>, <<1, 4>>, <<2, 3>>, <<2, 4>>, <<3, 4>>>>

\* the files of a back rank still unassigned, in file order
FreeSlots(out) == SortedSeq({i \in 0..7 : out[i] = NoPiece})

\* the last step filling the three free files with king, rook, rook
get_scharnagl_backrank_king_first(scharnagl) ==
    LET n2 == scharnagl \div 4
        b1 == scharnagl % 4
        n3 == n2 \div 4
        b2 == n2 % 4
        n4 == n3 \div 6
        q == n3 % 6
        out1 == [[i \in 0..7 |-> NoPiece] EXCEPT ![<<1, 3, 5, 7>>[b1 + 1]] = "Bishop"]
        out2 == [out1 EXCEPT ![<<0, 2, 4, 6>>[b2 + 1]] = "Bishop"]
        out3 == [out2 EXCEPT ![FreeSlots(out2)[q + 1]] = "Queen"]
        remaining_slots == FreeSlots(out3)
        selection == KnightSelection[n4 + 1]
        out4 == [i \in 0..7 |->
                    IF \E k \in 1..2 : remaining_slots[selection[k] + 1] = i
                    THEN "Knight" ELSE out3[i]]
        last3 == FreeSlots(out4)
    IN  [i \in 0..7 |->
            IF i = last3[2] \/ i = last3[3] THEN "Rook"
            ELSE IF i = last3[1] THEN "King"
            ELSE out4[i]]

\* get_scharnagl_backrank: the piece types on files a to h
get_scharnagl_backrank(scharnagl) ==
    LET n2 == scharnagl \div 4
        b1 == scharnagl % 4
        n3 == n2 \div 4
        b2 == n2 % 4
        n4 == n3 \div 6
        q == n3 % 6
        \* b1: 0 = b, 1 = d, 2 = f, 3 = h;  b2: 0 = a, 1 = c, 2 = e, 3 = g
        out1 == [[i \in 0..7 |-> NoPiece] EXCEPT ![<<1, 3, 5, 7>>[b1 + 1]] = "Bishop"]
        out2 == [out1 EXCEPT ![<<0, 2, 4, 6>>[b2 + 1]] = "Bishop"]
        out3 == [out2 EXCEPT ![FreeSlots(out2)[q + 1]] = "Queen"]
        remaining_slots == FreeSlots(out3)
        selection == KnightSelection[n4 + 1]
        out4 == [i \in 0..7 |->
                    IF \E k \in 1..2 : remaining_slots[selection[k] + 1] = i
                    THEN "Knight" ELSE out3[i]]
        last3 == FreeSlots(out4)
    IN  [i \in 0..7 |->
            IF i = last3[1] \/ i = last3[3] THEN "Rook"
            ELSE IF i = last3[2] THEN "King"
            ELSE out4[i]]

\* for file in File::ALL { add_piece(from_rank_file(rank, file), row[file]) }
\* on an empty rank: what the eight add_piece calls leave behind
AddRank(b, rank, row) ==
    [b EXCEPT !.pieces = [p \in Pieces |->
                             @[p] \cup {from_rank_file(rank, f) : f \in {g \in 0..7 : row[g] = p}}],
              !.piece_array = [sq \in Squares |->
                                  IF RankOf(sq) = rank THEN row[FileOf(sq)] ELSE @[sq]]]

\* the two rook files of a back rank, queenside first
RookFiles(backrank) == SortedSeq({i \in 0..7 : backrank[i] = "Rook"})

\* the body shared by set_frc_idx and set_dfrc_idx
SetBackranks(b, white_backrank, black_backrank) ==
    LET b1 == AddRank(reset(b), 0, [f \in 0..7 |-> PieceNew(White, white_backrank[f])])
        b2 == AddRank(b1, 1, [f \in 0..7 |-> PieceNew(White, "Pawn")])
        b3 == AddRank(b2, 7, [f \in 0..7 |-> PieceNew(Black, black_backrank[f])])
        b4 == AddRank(b3, 6, [f \in 0..7 |-> PieceNew(Black, "Pawn")])
        wr == RookFiles(white_backrank)
        br == RookFiles(black_backrank)
    IN  LoadFinish([b4 EXCEPT !.castle_perm =
            [wk |-> from_rank_file(0, wr[2]), wq |-> from_rank_file(0, wr[1]),
             bk |-> from_rank_file(7, br[2]), bq |-> from_rank_file(7, br[1])]])

set_frc_idx(b, scharnagl) ==
    SetBackranks(b, get_scharnagl_backrank(scharnagl), get_scharnagl_backrank(scharnagl))

set_dfrc_idx(b, scharnagl) ==
    SetBackranks(b, get_scharnagl_backrank(scharnagl % 960),
                 get_scharnagl_backrank(scharnagl \div 960))

\* the Scharnagl numbers loaded: the classical array (518), the first and
\* the last array, and a double number pairing two different arrays
FrcIndices == {0, 518, 959}
DfrcIndices == {518 + 960 * 959}

-----------------------------------------------------------------------------
(* The positions loaded.                                                   *)

\* 4k2r/7p/8/8/8/8/P7/R3K3 w Qk - 4 10
FEN_CASTLE ==
    <<"4", "k", "2", "r", "/", "7", "p", "/", "8", "/", "8", "/", "8", "/", "8", "/", "P", "7", "/", "R", "3", "K", "3", " ", "w", " ", "Q", "k", " ", "-", " ", "4", " ", "1", "0">>

\* 4k3/1p5p/P7/p7/p7/8/1P5P/4K3 w - - 3 20
FEN_EP ==
    <<"4", "k", "3", "/", "1", "p", "5", "p", "/", "P", "7", "/", "p", "7", "/", "p", "7", "/", "8", "/", "1", "P", "5", "P", "/", "4", "K", "3", " ", "w", " ", "-", " ", "-", " ", "3", " ", "2", "0">>

\* r3k3/1P6/8/8/8/8/8/4K3 w q - 2 30
FEN_PROMO ==
    <<"r", "3", "k", "3", "/", "1", "P", "6", "/", "8", "/", "8", "/", "8", "/", "8", "/", "8", "/", "4", "K", "3", " ", "w", " ", "q", " ", "-", " ", "2", " ", "3", "0">>

\* 8/8/8/KPp4r/8/8/8/4k3 w - c6 0 40
FEN_EP_PIN ==
    <<"8", "/", "8", "/", "8", "/", "K", "P", "p", "4", "r", "/", "8", "/", "8", "/", "8", "/", "4", "k", "3", " ", "w", " ", "-", " ", "c", "6", " ", "0", " ", "4", "0">>

\* 4k3/8/8/8/7b/8/4N3/4K2R w K - 7 12
FEN_CHECK ==
    <<"4", "k", "3", "/", "8", "/", "8", "/", "8", "/", "7", "b", "/", "8", "/", "4", "N", "3", "/", "4", "K", "2", "R", " ", "w", " ", "K", " ", "-", " ", "7", " ", "1", "2">>

\* 4k3/8/8/8/8/5n2/8/R3K2r w Q - 9 15
FEN_DOUBLE_CHECK ==
    <<"4", "k", "3", "/", "8", "/", "8", "/", "8", "/", "8", "/", "5", "n", "2", "/", "8", "/", "R", "3", "K", "2", "r", " ", "w", " ", "Q", " ", "-", " ", "9", " ", "1", "5">>

\* 1rk5/8/8/8/8/8/8/5KR1 w Gb - 1 5
FEN_FRC_SWAP ==
    <<"1", "r", "k", "5", "/", "8", "/", "8", "/", "8", "/", "8", "/", "8", "/", "8", "/", "5", "K", "R", "1", " ", "w", " ", "G", "b", " ", "-", " ", "1", " ", "5">>

\* rk6/8/8/8/8/8/8/6KR w Ha - 1 6
FEN_FRC_KING_STAYS ==
    <<"r", "k", "6", "/", "8", "/", "8", "/", "8", "/", "8", "/", "8", "/", "8", "/", "6", "K", "R", " ", "w", " ", "H", "a", " ", "-", " ", "1", " ", "6">>

\* 3rk3/8/8/8/8/8/8/4KR2 b Fd - 1 7
FEN_FRC_ROOK_STAYS ==
    <<"3", "r", "k", "3", "/", "8", "/", "8", "/", "8", "/", "8", "/", "8", "/", "8", "/", "4", "K", "R", "2", " ", "b", " ", "F", "d", " ", "-", " ", "1", " ", "7">>

\* 4k3/8/8/8/4P3/8/8/4K3 b - e3 0 1
FEN_EP_LONE ==
    <<"4", "k", "3", "/", "8", "/", "8", "/", "8", "/", "4", "P", "3", "/", "8", "/", "8", "/", "4", "K", "3", " ", "b", " ", "-", " ", "e", "3", " ", "0", " ", "1">>

\* 4k3/8/8/8/8/8/8/4K1N1 w - - 100 80
FEN_FIFTY ==
    <<"4", "k", "3", "/", "8", "/", "8", "/", "8", "/", "8", "/", "8", "/", "8", "/", "4", "K", "1", "N", "1", " ", "w", " ", "-", " ", "-", " ", "1", "0", "0", " ", "8", "0">>

\* 8/8/5k2/8/8/2K5/8/8 b - - 0 1
FEN_KK ==
    <<"8", "/", "8", "/", "5", "k", "2", "/", "8", "/", "8", "/", "2", "K", "5", "/", "8", "/", "8", " ", "b", " ", "-", " ", "-", " ", "0", " ", "1">>

\* 8/8/5k2/8/8/2K2N2/8/8 b - - 0 1
FEN_KNK ==
    <<"8", "/", "8", "/", "5", "k", "2", "/", "8", "/", "8", "/", "2", "K", "2", "N", "2", "/", "8", "/", "8", " ", "b", " ", "-", " ", "-", " ", "0", " ", "1">>

\* 8/8/5k2/8/2N5/2K2N2/8/8 b - - 0 1
FEN_KNNK ==
    <<"8", "/", "8", "/", "5", "k", "2", "/", "8", "/", "2", "N", "5", "/", "2", "K", "2", "N", "2", "/", "8", "/", "8", " ", "b", " ", "-", " ", "-", " ", "0", " ", "1">>

\* 5b2/8/5k2/8/8/2K5/8/2B5 w - - 0 1
FEN_KBKB ==
    <<"5", "b", "2", "/", "8", "/", "5", "k", "2", "/", "8", "/", "8", "/", "2", "K", "5", "/", "8", "/", "2", "B", "5", " ", "w", " ", "-", " ", "-", " ", "0", " ", "1">>

StandardFens ==
    {FEN_CASTLE, FEN_EP, FEN_PROMO, FEN_EP_PIN, FEN_CHECK, FEN_DOUBLE_CHECK,
     FEN_EP_LONE, FEN_FIFTY, FEN_KK, FEN_KNK, FEN_KNNK, FEN_KBKB}
ShredderFens == {FEN_FRC_SWAP, FEN_FRC_KING_STAYS, FEN_FRC_ROOK_STAYS}
Fens(frc) == IF frc THEN ShredderFens ELSE StandardFens

-----------------------------------------------------------------------------
(* History tables (src/src/historytable.rs).  A table is the function from *)
(* the slots that hold a value other than zero to that value.              *)

DO_COLOUR_DIFFERENTIATION == TRUE
AGEING_DIVISOR == 4
HISTORY_DIVISOR == 32767
BOARD_N_SQUARES == 64
I32_MAX == 2147483647

pslots == IF DO_COLOUR_DIFFERENTIATION THEN 12 ELSE 6

\* Piece::index: 1..12, White Pawn first, Black King last (0 is the empty
\* piece)
piece_index(p) ==
    CASE p = "WP" -> 1 [] p = "WN" -> 2 [] p = "WB" -> 3 [] p = "WR" -> 4
      [] p = "WQ" -> 5 [] p = "WK" -> 6 [] p = "BP" -> 7 [] p = "BN" -> 8
      [] p = "BB" -> 9 [] p = "BR" -> 10 [] p = "BQ" -> 11 [] p = "BK" -> 12

uncoloured_piece_index(p) == (piece_index(p) - 1) % 6
coloured_piece_index(p) == piece_index(p) - 1
hist_table_piece_offset(p) ==
    IF DO_COLOUR_DIFFERENTIATION THEN coloured_piece_index(p)
    ELSE uncoloured_piece_index(p)

\* i32 division: the quotient is rounded towards zero
TruncDiv(a, b) == IF a >= 0 THEN a \div b ELSE -((-a) \div b)

\* a * b is an i32
MulFits(a, b) == a = 0 \/ Abs(b) <= I32_MAX \div Abs(a)

\* Depth::squared() + Depth::round(), the depth in whole plies
history_bonus(depth) == depth * depth + depth

\* update_history without the decay term
update_history_no_decay(val, depth, is_good) ==
    LET delta == IF is_good THEN history_bonus(depth) ELSE -history_bonus(depth)
    IN  [val |-> val + delta, overflow |-> FALSE]

\* update_history::<IS_GOOD>(val, depth): the new value, and whether an
\* intermediate result leaves the i32 range
update_history(val, depth, is_good) ==
    LET delta == IF is_good THEN history_bonus(depth) ELSE -history_bonus(depth)
    IN  IF ~MulFits(val, Abs(delta))
        THEN [val |-> val, overflow |-> TRUE]
        ELSE LET decay == TruncDiv(val * Abs(delta), HISTORY_DIVISOR)
             IN  [val |-> val + (delta - decay), overflow |-> FALSE]

\* a table read and written slot by slot
TableGet(t, slot) == IF slot \in DOMAIN t THEN t[slot] ELSE 0
TableSet(t, slot, v) ==
    [s \in IF v = 0 THEN DOMAIN t \ {slot} ELSE DOMAIN t \cup {slot} |->
        IF s = slot THEN v ELSE t[s]]

\* HistoryTable::new and HistoryTable::clear
HistoryTableNew == [s \in {} |-> 0]

\* age_entries on the values of a table
AgeTable(t) ==
    [s \in {x \in DOMAIN t : TruncDiv(t[x], AGEING_DIVISOR) # 0} |->
        TruncDiv(t[s], AGEING_DIVISOR)]

\* HistoryTable::age_entries
age_entries(t) == AgeTable(t)

\* HistoryTable::get
HistoryGet(t, piece, sq) == TableGet(t, <<hist_table_piece_offset(piece), sq>>)

\* DoubleHistoryTable: I1, I2, I3
I1 == BOARD_N_SQUARES * pslots * BOARD_N_SQUARES
I2 == BOARD_N_SQUARES * pslots
I3 == BOARD_N_SQUARES

\* DoubleHistoryTable::new: the Vec is empty until the first clear
DoubleHistoryTableNew == [len |-> 0, table |-> [s \in {} |-> 0]]

\* DoubleHistoryTable::clear
DoubleClear(d) ==
    [len |-> BOARD_N_SQUARES * pslots * BOARD_N_SQUARES * pslots,
     table |-> [s \in {} |-> 0]]

\* DoubleHistoryTable::age_entries (asserts a table that is not empty)
DoubleAge(d) == [d EXCEPT !.table = AgeTable(@)]

\* the index DoubleHistoryTable::get and get_mut compute
DoubleIndex(piece_1, sq1, piece_2, sq2) ==
    LET pt_1 == hist_table_piece_offset(piece_1)
        pt_2 == hist_table_piece_offset(piece_2)
    IN  pt_1 * I1 + pt_2 * I2 + sq1 * I3 + sq2

\* DoubleHistoryTable::get: the value, or a panic past the end of the Vec
DoubleGet(d, piece_1, sq1, piece_2, sq2) ==
    IF DoubleIndex(piece_1, sq1, piece_2, sq2) >= d.len THEN "panic"
    ELSE TableGet(d.table, DoubleIndex(piece_1, sq1, piece_2, sq2))

-----------------------------------------------------------------------------
(* The state machine.                                                      *)

SetBoard(b) ==
    /\ pieces' = b.pieces
    /\ piece_array' = b.piece_array
    /\ side' = b.side
    /\ ep_sq' = b.ep_sq
    /\ castle_perm' = b.castle_perm
    /\ fifty_move_counter' = b.fifty_move_counter
    /\ ply' = b.ply
    /\ key' = b.key
    /\ pawn_key' = b.pawn_key
    /\ non_pawn_key' = b.non_pawn_key
    /\ minor_key' = b.minor_key
    /\ major_key' = b.major_key
    /\ threats' = b.threats
    /\ height' = b.height
    /\ history' = b.history

\* a position has been loaded and the Board is between operations
Loaded ==
    last_op \in {"load", "make_ok", "make_fail", "unmake", "null", "unnull", "zero"}

\* Board::new, and nothing done yet
InitBoard ==
    /\ pieces = BoardNew.pieces
    /\ piece_array = BoardNew.piece_array
    /\ side = BoardNew.side
    /\ ep_sq = BoardNew.ep_sq
    /\ castle_perm = BoardNew.castle_perm
    /\ fifty_move_counter = BoardNew.fifty_move_counter
    /\ ply = BoardNew.ply
    /\ key = BoardNew.key
    /\ pawn_key = BoardNew.pawn_key
    /\ non_pawn_key = BoardNew.non_pawn_key
    /\ minor_key = BoardNew.minor_key
    /\ major_key = BoardNew.major_key
    /\ threats = BoardNew.threats
    /\ height = BoardNew.height
    /\ history = BoardNew.history
    /\ last_op = "new"
    /\ last_move = NoMove
    /\ before = <<>>

\* No operation on the positions loaded below overflows an integer, so the
\* build is kept to the one without overflow checks.
Init ==
    /\ InitBoard
    /\ chess960 \in BOOLEAN
    /\ overflow_checks = FALSE
    /\ history_table = HistoryTableNew
    /\ double_history_table = DoubleHistoryTableNew


\* set_from_fen.  A position is set up between searches, when every move
\* made on the Board has been unmade (height = 0).
SetFromFen ==
    /\ height = 0
    /\ \E fen \in Fens(chess960) :
           \E r \in {set_from_fen(Board, fen, chess960)} :
               /\ r.status \in {"Ok", "Err"}
               /\ SetBoard(r.b)
               /\ last_op' = IF r.status = "Ok" THEN "load" ELSE "load_err"
               /\ last_move' = NoMove
               /\ before' = <<>>
               /\ UNCHANGED <<chess960, overflow_checks, history_table, double_history_table>>

\* set_frc_idx; outside Chess960 mode only the classical array is set up
SetFrcIdx ==
    \E idx \in FrcIndices :
        /\ height = 0
        /\ chess960 \/ idx = 518
        /\ SetBoard(set_frc_idx(Board, idx))
        /\ last_op' = "load"
        /\ last_move' = NoMove
        /\ before' = <<>>
        /\ UNCHANGED <<chess960, overflow_checks, history_table, double_history_table>>

\* set_dfrc_idx, in Chess960 mode
SetDfrcIdx ==
    \E idx \in DfrcIndices :
        /\ height = 0
        /\ chess960
        /\ SetBoard(set_dfrc_idx(Board, idx))
        /\ last_op' = "load"
        /\ last_move' = NoMove
        /\ before' = <<>>
        /\ UNCHANGED <<chess960, overflow_checks, history_table, double_history_table>>

\* the entries of a MoveList
Entries(ml) == {ml[i] : i \in 1..Len(ml)}

\* make_move_base on a move of the generated list
MakeMove ==
    /\ Loaded
    /\ Len(history) < MaxHistory
    /\ \E e \in Entries(generate_moves(Board, chess960)) :
           \E r \in {make_move_base(Board, e.mov)} :
               /\ SetBoard(r.board)
               /\ last_op' = IF r.ok THEN "make_ok" ELSE "make_fail"
               /\ last_move' = e.mov
               /\ before' = <<Board>>
               /\ UNCHANGED <<chess960, overflow_checks, history_table, double_history_table>>

\* unmake_move_base, matched to the make_move_base that pushed the Undo.
\* When it directly follows a successful make, `before` keeps the Board that
\* make started from and `last_move` the move.
UnmakeMove ==
    /\ Loaded
    /\ history # <<>>
    /\ ~last_move_was_nullmove(Board)
    /\ SetBoard(unmake_move_base(Board))
    /\ last_op' = "unmake"
    /\ last_move' = IF last_op = "make_ok" THEN last_move ELSE NoMove
    /\ before' = IF last_op = "make_ok" THEN before ELSE <<>>
    /\ UNCHANGED <<chess960, overflow_checks, history_table, double_history_table>>

\* make_nullmove (its callers never pass a position in check)
MakeNullmove ==
    /\ Loaded
    /\ Len(history) < MaxHistory
    /\ ~in_check(Board)
    /\ SetBoard(make_nullmove(Board))
    /\ last_op' = "null"
    /\ last_move' = NoMove
    /\ before' = <<Board>>
    /\ UNCHANGED <<chess960, overflow_checks, history_table, double_history_table>>

\* unmake_nullmove.  When it directly follows the make_nullmove, `before`
\* keeps the Board that make_nullmove started from.
UnmakeNullmove ==
    /\ Loaded
    /\ last_move_was_nullmove(Board)
    /\ SetBoard(unmake_nullmove(Board))
    /\ last_op' = "unnull"
    /\ last_move' = NoMove
    /\ before' = IF last_op = "null" THEN before ELSE <<>>
    /\ UNCHANGED <<chess960, overflow_checks, history_table, double_history_table>>

Next ==
    \/ SetFromFen
    \/ SetFrcIdx
    \/ SetDfrcIdx
    \/ MakeMove
    \/ UnmakeMove
    \/ MakeNullmove
    \/ UnmakeNullmove

Spec == Init /\ [][Next]_vars

-----------------------------------------------------------------------------
(* Reference semantics on the mailbox: the rules of chess stated square by *)
(* square, independent of the bitboards and of the attack tables.          *)

RefOnBoard(r, f) == r \in 0..7 /\ f \in 0..7

\* the squares reached from s by repeating the step (dr, df) over empty squares,
\* the first occupied square included
RefRay(pa, s, dr, df) ==
    {from_rank_file(RankOf(s) + i * dr, FileOf(s) + i * df) :
        i \in {n \in 1..7 :
                 /\ RefOnBoard(RankOf(s) + n * dr, FileOf(s) + n * df)
                 /\ \A j \in 1..(n - 1) :
                        pa[from_rank_file(RankOf(s) + j * dr, FileOf(s) + j * df)] = NoPiece}}

RefLeaps(s, deltas) ==
    {from_rank_file(RankOf(s) + d[1], FileOf(s) + d[2]) :
        d \in {e \in deltas : RefOnBoard(RankOf(s) + e[1], FileOf(s) + e[2])}}

RefDiagSteps == {<<1, 1>>, <<1, -1>>, <<-1, 1>>, <<-1, -1>>}
RefLineSteps == {<<1, 0>>, <<-1, 0>>, <<0, 1>>, <<0, -1>>}
RefKnightSteps ==
    {<<1, 2>>, <<2, 1>>, <<-1, 2>>, <<-2, 1>>, <<1, -2>>, <<2, -1>>, <<-1, -2>>, <<-2, -1>>}

\* the squares the piece standing on s attacks
RefAttacksFrom(pa, s) ==
    LET p == pa[s]
        pt == piece_type[p]
        up == IF colour[p] = White THEN 1 ELSE -1
    IN  CASE pt = "Pawn" -> RefLeaps(s, {<<up, 1>>, <<up, -1>>})
          [] pt = "Knight" -> RefLeaps(s, RefKnightSteps)
          [] pt = "King" -> RefLeaps(s, RefDiagSteps \cup RefLineSteps)
          [] pt = "Bishop" -> UNION {RefRay(pa, s, d[1], d[2]) : d \in RefDiagSteps}
          [] pt = "Rook" -> UNION {RefRay(pa, s, d[1], d[2]) : d \in RefLineSteps}
          [] pt = "Queen" ->
                UNION {RefRay(pa, s, d[1], d[2]) : d \in RefDiagSteps \cup RefLineSteps}

RefPiecesOf(pa, c) == {s \in Squares : pa[s] # NoPiece /\ colour[pa[s]] = c}
RefAttackedBy(pa, c) == UNION {RefAttacksFrom(pa, s) : s \in RefPiecesOf(pa, c)}
RefKings(pa, c) == {s \in Squares : pa[s] = PieceNew(c, "King")}
RefAttackersOf(pa, c, target) == {s \in RefPiecesOf(pa, c) : target \in RefAttacksFrom(pa, s)}

\* the mailbox after move m by side c: castling is king-takes-own-rook, en
\* passant removes the pawn beside the origin, a promotion changes the piece
RefApply(pa, m, c) ==
    IF is_castle(m)
    THEN LET short == m.to > m.from
             king_dst == relative_to(IF short THEN G1 ELSE C1, c)
             rook_dst == relative_to(IF short THEN F1 ELSE D1, c)
             cleared == [pa EXCEPT ![m.from] = NoPiece, ![m.to] = NoPiece]
         IN  [cleared EXCEPT ![king_dst] = PieceNew(c, "King"),
                             ![rook_dst] = PieceNew(c, "Rook")]
    ELSE LET arriving == IF is_promo(m) THEN PieceNew(c, m.promo) ELSE pa[m.from]
             moved == [pa EXCEPT ![m.from] = NoPiece, ![m.to] = arriving]
         IN  IF is_ep(m)
             THEN [moved EXCEPT ![from_rank_file(RankOf(m.from), FileOf(m.to))] = NoPiece]
             ELSE moved

MadeMove == last_op \in {"make_ok", "make_fail"}

-----------------------------------------------------------------------------
(* Claims.                                                                 *)

\* C1: an unmake_move_base that directly follows a successful
\* make_move_base(m) from Board P leaves a Board equal to P on every field
\* (layout, mailbox, side, ep_sq, castling rights, fifty, ply, height, the
\* five keys, threats and the history stack).
C1_MakeUnmakeRoundTrip ==
    (last_op = "unmake" /\ before # <<>>) => Board = before[1]

\* the round trip of a castling move has happened
C1_Witness == last_op = "unmake" /\ before # <<>> /\ is_castle(last_move)

\* C2: when make_move_base returns false every Board field is as before the
\* call, and the history stack (so the count of Undo records) is unchanged.
C2_FailedMakeUnchanged ==
    last_op = "make_fail" => Board = before[1]

\* a move was refused in a position whose fifty-move counter was not zero
C2_Witness == last_op = "make_fail" /\ before[1].fifty_move_counter > 0

\* C3: make_move_base(m) returns true iff, on the board with m applied, the
\* king of the side that moved is attacked by no piece of the opponent.
C3_MakeIffKingSafe ==
    MadeMove =>
        LET mover == before[1].side
            after == RefApply(before[1].piece_array, last_move, mover)
        IN  (last_op = "make_ok") <=>
                (RefKings(after, mover) \cap RefAttackedBy(after, flip(mover)) = {})

\* an en passant capture was refused because it uncovers the king
C3_Witness == last_op = "make_fail" /\ is_ep(last_move)

\* C4: after a load and after every matched sequence of make, unmake,
\* null move and its unmake, the stored keys (key, pawn_key, both
\* non_pawn_keys, minor_key, major_key) equal generate_pos_keys().
C4_KeysMatchRecomputation ==
    Loaded =>
        LET K == generate_pos_keys(Board)
        IN  /\ key = K.key
            /\ pawn_key = K.pawn_key
            /\ non_pawn_key = K.non_pawn_key
            /\ minor_key = K.minor_key
            /\ major_key = K.major_key

\* a capturing promotion was made while an en passant square was set or castling
\* rights changed
C4_Witness ==
    /\ last_op = "make_ok"
    /\ is_promo(last_move)
    /\ before[1].piece_array[last_move.to] # NoPiece
    /\ castle_perm # before[1].castle_perm

\* C5: after any sequence of successful makes and unmakes the mailbox and the
\* bitboards name the same piece on every square, and each side has exactly
\* one king.
C5_MailboxAgreesWithBitboards ==
    Loaded =>
        /\ \A sq \in Squares : \A p \in Pieces : (sq \in pieces[p]) <=> (piece_array[sq] = p)
        /\ \A c \in {White, Black} : Cardinality(king(pieces, c)) = 1

\* a castling move was made whose king already stood on its destination
C5_Witness ==
    /\ last_op = "make_ok"
    /\ is_castle(last_move)
    /\ piece_array[last_move.from] = PieceNew(flip(side), "King")

\* C6: after a load, a successful make or a null move, threats.all is the
\* union of the attack sets of the pieces of the side not to move and
\* threats.checkers is the set of those pieces attacking the mover's king.
C6_ThreatsCorrect ==
    last_op \in {"load", "make_ok", "null"} =>
        /\ threats.all = RefAttackedBy(piece_array, flip(side))
        /\ threats.checkers =
              UNION {RefAttackersOf(piece_array, flip(side), k) : k \in RefKings(piece_array, side)}

\* a move was made that gives check
C6_Witness == last_op = "make_ok" /\ threats.checkers # {}

\* a MoveList as the bag of its entries
BagOfList(ml) ==
    [e \in {ml[i] : i \in DOMAIN ml} |-> Cardinality({i \in DOMAIN ml : ml[i] = e})]

\* C7: generate_moves produces the same entries (move and tactical/quiet
\* tag), each as many times, as generate_captures in main-search mode
\* followed by generate_quiets on the same list.
C7_GeneratorsAgree ==
    Loaded =>
        BagOfList(generate_moves(Board, chess960))
            = BagOfList(generate_quiets(Board, generate_captures(Board, FALSE), chess960))

\* the position offers an underpromotion by push and a castling move
C7_Witness ==
    /\ Loaded
    /\ LET ml == generate_moves(Board, chess960)
       IN  /\ \E i \in DOMAIN ml :
                  /\ ml[i].mov.promo = "Knight"
                  /\ piece_array[ml[i].mov.to] = NoPiece
           /\ \E i \in DOMAIN ml : ml[i].score = QUIET_SENTINEL

\* every encoding of a move: any two squares with any flag and promotion piece
EncodedMoves ==
    {MoveNew(f, t) : f \in Squares, t \in Squares}
    \cup {MoveNewWithFlags(f, t, fl) : f \in Squares, t \in Squares, fl \in {"EnPassant", "Castle"}}
    \cup {MoveNewWithPromo(f, t, pt) :
            f \in Squares, t \in Squares, pt \in {"Queen", "Rook", "Bishop", "Knight"}}

\* C8: is_pseudo_legal(m) is true exactly for the moves generate_moves emits,
\* for every encoded move m.
C8_PseudoLegalIffGenerated ==
    Loaded =>
        LET ml == generate_moves(Board, chess960)
            emitted == {ml[i].mov : i \in DOMAIN ml}
        IN  \A m \in EncodedMoves : is_pseudo_legal(Board, m) <=> m \in emitted

\* C8, its en passant clause alone: an en-passant-flagged move is accepted
\* only when generate_ep emits it.
C8_EnPassantFlagged ==
    Loaded =>
        LET ml == generate_moves(Board, chess960)
            emitted == {ml[i].mov : i \in DOMAIN ml}
        IN  \A f \in Squares, t \in Squares :
                is_pseudo_legal(Board, MoveNewWithFlags(f, t, "EnPassant"))
                    => MoveNewWithFlags(f, t, "EnPassant") \in emitted

Rights == {"wk", "wq", "bk", "bq"}
RightsOf(c) == IF c = White THEN {"wk", "wq"} ELSE {"bk", "bq"}

\* C9: after a successful make, a king move leaves its side no right, a rook
\* leaving the square of a right clears that right, a piece landing on the
\* square of a right clears that right, and no right appears or changes.
C9_CastlingRightsUpdate ==
    last_op = "make_ok" =>
        LET old == before[1].castle_perm
            moved == before[1].piece_array[last_move.from]
            landed == {s \in Squares :
                          piece_array[s] # NoPiece /\ piece_array[s] # before[1].piece_array[s]}
        IN  /\ piece_type[moved] = "King" =>
                  \A r \in RightsOf(colour[moved]) : castle_perm[r] = NoSq
            /\ piece_type[moved] = "Rook" =>
                  \A r \in Rights : old[r] = last_move.from => castle_perm[r] = NoSq
            /\ \A r \in Rights : old[r] \in landed => castle_perm[r] = NoSq
            /\ \A r \in Rights : castle_perm[r] # NoSq => castle_perm[r] = old[r]

\* a piece that is neither king nor rook took a right away by landing on its
\* rook's square
C9_Witness ==
    /\ last_op = "make_ok"
    /\ piece_type[before[1].piece_array[last_move.from]] \notin {"King", "Rook"}
    /\ castle_perm # before[1].castle_perm

\* C10: after a successful make, ep_sq is the skipped square when the move
\* was a double pawn push with an enemy pawn on the same rank one file west
\* or east of its destination, and None otherwise; and the key holds an
\* en passant key, that of ep_sq's file, exactly when ep_sq is set.
C10_EpSquareAfterMake ==
    last_op = "make_ok" =>
        LET pa == before[1].piece_array
            mover == before[1].side
            m == last_move
            double_push == /\ piece_type[pa[m.from]] = "Pawn"
                           /\ FileOf(m.from) = FileOf(m.to)
                           /\ Abs(RankOf(m.to) - RankOf(m.from)) = 2
            beside == {s \in Squares : /\ RankOf(s) = RankOf(m.to)
                                       /\ Abs(FileOf(s) - FileOf(m.to)) = 1}
            skipped == from_rank_file((RankOf(m.from) + RankOf(m.to)) \div 2, FileOf(m.from))
        IN  /\ ep_sq = IF double_push /\ \E s \in beside : pa[s] = PieceNew(flip(mover), "Pawn")
                       THEN skipped ELSE NoSq
            /\ {a \in key : a[1] = "ep"}
                  = IF ep_sq # NoSq THEN {<<"ep", FileOf(ep_sq)>>} ELSE {}

\* a double push set the en passant square
C10_Witness == last_op = "make_ok" /\ ep_sq # NoSq

\* a double push on the h-file, the next square in index order holding an enemy
\* pawn on the a-file, left the en passant square unset
C10_WitnessNoWrap ==
    /\ last_op = "make_ok"
    /\ ep_sq = NoSq
    /\ FileOf(last_move.to) = 7
    /\ Abs(last_move.to - last_move.from) = 16
    /\ piece_array[last_move.to + 1] = PieceNew(side, "Pawn")

-----------------------------------------------------------------------------
(* Claims about the en passant square, the fifty-move counter and draws.   *)

\* C11: in every state reached by set_from_fen followed by makes, unmakes
\* and null moves, ep_sq is set only if the previous move was a double pawn
\* push and a pawn of the side to move stands beside the pushed pawn: the
\* pushed pawn stands right past ep_sq, ep_sq and the square the pawn came
\* from are empty, a pawn of the side to move is on the pushed pawn's rank
\* one file away, and after a make the move made was that double push.
C11_EpSquareJustified ==
    (Loaded /\ ep_sq # NoSq) =>
        LET pusher == flip(side)
            up == IF pusher = White THEN 8 ELSE -8
            pushed == ep_sq + up
            origin == ep_sq - up
        IN  /\ RankOf(ep_sq) = IF pusher = White THEN 2 ELSE 5
            /\ piece_array[pushed] = PieceNew(pusher, "Pawn")
            /\ piece_array[ep_sq] = NoPiece
            /\ piece_array[origin] = NoPiece
            /\ \E s \in Squares : /\ RankOf(s) = RankOf(pushed)
                                  /\ Abs(FileOf(s) - FileOf(pushed)) = 1
                                  /\ piece_array[s] = PieceNew(side, "Pawn")
            /\ last_op = "make_ok" => (last_move.from = origin /\ last_move.to = pushed)

\* C12: in every state reached by set_from_fen followed by make_move_base,
\* unmake_move_base, make_nullmove and unmake_nullmove, fifty_move_counter
\* is at most 100.
C12_FiftyAtMostHundred == Loaded => fifty_move_counter <= 100

-----------------------------------------------------------------------------
(* Draw detection and game outcome (src/src/board.rs).                     *)

\* zero_height: the search root is moved to the current position
zero_height(b) == [b EXCEPT !.height = 0]

\* the Undo `dist_back` places from the top of the history stack
UndoBack(b, dist_back) == b.history[Len(b.history) - dist_back]

\* the loop of is_repetition from dist_back on (history.iter().rev()
\* .enumerate().take(fifty_move_counter).skip(3).step_by(2)), `counter`
\* matches having been seen beyond the search subtree
RECURSIVE RepetitionScan(_, _, _)
RepetitionScan(b, dist_back, counter) ==
    IF dist_back >= SeqMin(Len(b.history), b.fifty_move_counter) THEN FALSE
    ELSE IF UndoBack(b, dist_back).key = b.key
         THEN IF dist_back < b.height THEN TRUE
              ELSE IF counter + 1 >= 2 THEN TRUE
              ELSE RepetitionScan(b, dist_back + 2, counter + 1)
         ELSE RepetitionScan(b, dist_back + 2, counter)

\* is_repetition looking two plies back as well
is_repetition_from_two(b) == RepetitionScan(b, 1, 0)

is_repetition(b) == RepetitionScan(b, 3, 0)

\* is_draw without the test of the search root
is_draw_at_root(b) == b.fifty_move_counter >= 100 \/ is_repetition(b)

is_draw(b) == (b.fifty_move_counter >= 100 \/ is_repetition(b)) /\ b.height # 0

DARK_SQUARES == {s \in Squares : (RankOf(s) + FileOf(s)) % 2 = 0}
LIGHT_SQUARES == Squares \ DARK_SQUARES

\* has_insufficient_material letting a side with any number of knights pass
has_insufficient_material_knights(b, c) ==
    IF (b.pieces[PieceNew(c, "Pawn")] \cup b.pieces[PieceNew(c, "Rook")]
            \cup b.pieces[PieceNew(c, "Queen")]) # {}
    THEN FALSE
    ELSE IF b.pieces[PieceNew(c, "Bishop")] # {}
    THEN /\ \/ (b.pieces["WB"] \cup b.pieces["BB"]) \cap DARK_SQUARES = {}
            \/ (b.pieces["WB"] \cup b.pieces["BB"]) \cap LIGHT_SQUARES = {}
         /\ all_pawns(b.pieces) = {}
    ELSE TRUE

has_insufficient_material(b, c) ==
    IF (b.pieces[PieceNew(c, "Pawn")] \cup b.pieces[PieceNew(c, "Rook")]
            \cup b.pieces[PieceNew(c, "Queen")]) # {}
    THEN FALSE
    ELSE IF b.pieces[PieceNew(c, "Knight")] # {}
    THEN /\ Cardinality(occupied_co(b.pieces, c)) <= 2
         /\ (their_pieces(b.pieces, c)
                \ (all_kings(b.pieces) \cup b.pieces["WQ"] \cup b.pieces["BQ"])) = {}
    ELSE IF b.pieces[PieceNew(c, "Bishop")] # {}
    THEN /\ \/ (b.pieces["WB"] \cup b.pieces["BB"]) \cap DARK_SQUARES = {}
            \/ (b.pieces["WB"] \cup b.pieces["BB"]) \cap LIGHT_SQUARES = {}
         /\ all_pawns(b.pieces) = {}
         /\ (b.pieces["WN"] \cup b.pieces["BN"]) = {}
    ELSE TRUE

is_insufficient_material(b) ==
    has_insufficient_material(b, White) /\ has_insufficient_material(b, Black)

\* the repetition loop of outcome from dist_back on (history.iter().rev()
\* .skip(1).step_by(2)), the position having been counted `reps` times
RECURSIVE OutcomeScan(_, _, _)
OutcomeScan(b, dist_back, reps) ==
    IF dist_back >= Len(b.history) THEN FALSE
    ELSE IF UndoBack(b, dist_back).key = b.key /\ reps + 1 = 3 THEN TRUE
    ELSE IF UndoBack(b, dist_back).fifty_move_counter = 0 THEN FALSE
    ELSE OutcomeScan(b, dist_back + 2,
                     IF UndoBack(b, dist_back).key = b.key THEN reps + 1 ELSE reps)

\* outcome reporting a repetition at the second occurrence
outcome_twofold(b, frc) ==
    IF b.fifty_move_counter >= 100 THEN "Draw(FiftyMoves)"
    ELSE IF OutcomeScan(b, 1, 2) THEN "Draw(Repetition)"
    ELSE "Ongoing"

\* outcome, with the game mode its generate_moves runs in
outcome(b, frc) ==
    IF b.fifty_move_counter >= 100 THEN "Draw(FiftyMoves)"
    ELSE IF OutcomeScan(b, 1, 1) THEN "Draw(Repetition)"
    ELSE IF is_insufficient_material(b) THEN "Draw(InsufficientMaterial)"
    ELSE IF \E e \in Entries(generate_moves(b, frc)) : make_move_base(b, e.mov).ok
    THEN "Ongoing"
    ELSE IF in_check(b)
    THEN (IF b.side = White THEN "BlackWin(Mate)" ELSE "WhiteWin(Mate)")
    ELSE "Draw(Stalemate)"

-----------------------------------------------------------------------------
(* Games long enough to repeat a position: the kings shuttle between two   *)
(* squares each, null moves are interleaved and the search root is moved.  *)

MaxRepHistory == 8

\* 4k3/7p/8/8/8/8/7P/4K3 w - - 0 1
FEN_REP ==
    <<"4", "k", "3", "/", "7", "p", "/", "8", "/", "8", "/", "8", "/", "8", "/", "7", "P", "/", "4", "K", "3", " ", "w", " ", "-", " ", "-", " ", "0", " ", "1">>

\* 4k3/7p/8/8/8/8/7P/4K3 w - - 92 60
FEN_REP_LATE ==
    <<"4", "k", "3", "/", "7", "p", "/", "8", "/", "8", "/", "8", "/", "8", "/", "7", "P", "/", "4", "K", "3", " ", "w", " ", "-", " ", "-", " ", "9", "2", " ", "6", "0">>

RepFens == {FEN_REP, FEN_REP_LATE}

\* the squares the moves made stay on
ShuttleSquares == {D1, E1, D8, E8}

RepSetFromFen ==
    /\ height = 0
    /\ history = <<>>
    /\ \E fen \in RepFens :
           \E r \in {set_from_fen(Board, fen, chess960)} :
               /\ r.status = "Ok"
               /\ SetBoard(r.b)
               /\ last_op' = "load"
               /\ last_move' = NoMove
               /\ before' = <<>>
               /\ UNCHANGED <<chess960, overflow_checks, history_table, double_history_table>>

RepMakeMove ==
    /\ Loaded
    /\ Len(history) < MaxRepHistory
    /\ \E e \in Entries(generate_moves(Board, chess960)) :
           /\ e.mov.from \in ShuttleSquares
           /\ e.mov.to \in ShuttleSquares
           /\ \E r \in {make_move_base(Board, e.mov)} :
                  /\ SetBoard(r.board)
                  /\ last_op' = IF r.ok THEN "make_ok" ELSE "make_fail"
                  /\ last_move' = e.mov
                  /\ before' = <<>>
                  /\ UNCHANGED <<chess960, overflow_checks, history_table, double_history_table>>

\* a search unmakes only the moves it made: never below its root
RepUnmakeMove ==
    /\ Loaded
    /\ height > 0
    /\ ~last_move_was_nullmove(Board)
    /\ SetBoard(unmake_move_base(Board))
    /\ last_op' = "unmake"
    /\ last_move' = NoMove
    /\ before' = <<>>
    /\ UNCHANGED <<chess960, overflow_checks, history_table, double_history_table>>

RepMakeNullmove ==
    /\ Loaded
    /\ Len(history) < MaxRepHistory
    /\ ~in_check(Board)
    /\ SetBoard(make_nullmove(Board))
    /\ last_op' = "null"
    /\ last_move' = NoMove
    /\ before' = <<>>
    /\ UNCHANGED <<chess960, overflow_checks, history_table, double_history_table>>

RepUnmakeNullmove ==
    /\ Loaded
    /\ height > 0
    /\ last_move_was_nullmove(Board)
    /\ SetBoard(unmake_nullmove(Board))
    /\ last_op' = "unnull"
    /\ last_move' = NoMove
    /\ before' = <<>>
    /\ UNCHANGED <<chess960, overflow_checks, history_table, double_history_table>>

\* zero_height, when a new search starts from the current position
ZeroHeight ==
    /\ Loaded
    /\ height > 0
    /\ SetBoard(zero_height(Board))
    /\ last_op' = "zero"
    /\ last_move' = NoMove
    /\ before' = <<>>
    /\ UNCHANGED <<chess960, overflow_checks, history_table, double_history_table>>

NextRep ==
    \/ RepSetFromFen
    \/ RepMakeMove
    \/ RepUnmakeMove
    \/ RepMakeNullmove
    \/ RepUnmakeNullmove
    \/ ZeroHeight

SpecRep == Init /\ [][NextRep]_vars

-----------------------------------------------------------------------------
(* Claims about draws.                                                     *)

\* C13: is_draw is true exactly when height is not 0 and
\* (fifty_move_counter >= 100 or is_repetition); at the search root
\* (height = 0) it is false whatever the counter and the history are.
C13_IsDrawOnlyBelowRoot ==
    Loaded =>
        /\ is_draw(Board) <=>
               (height # 0 /\ (fifty_move_counter >= 100 \/ is_repetition(Board)))
        /\ height = 0 => ~is_draw(Board)

\* at the root with the counter at 100 and the position repeated twice before
C13_Witness ==
    /\ Loaded
    /\ height = 0
    /\ fifty_move_counter >= 100
    /\ is_repetition(Board)

\* below the root, drawn by repetition alone
C13_WitnessRepetition ==
    Loaded /\ height # 0 /\ fifty_move_counter < 100 /\ is_draw(Board)

\* the position `back` plies before the current one was left with this key
KeyBack(back) == history[Len(history) - back + 1].key

\* the distances, in plies, at which an earlier position may be compared: even,
\* from 4 on, at most fifty_move_counter, and the key there is the current key
RepMatches ==
    {back \in 4..SeqMin(Len(history), fifty_move_counter) :
        back % 2 = 0 /\ KeyBack(back) = key}

\* C14: is_repetition compares the current key only with the positions 4, 6,
\* 8, ... plies back and at most fifty_move_counter plies back; it is true on
\* one match that is not before the position at which height was 0 (at most
\* height plies back), and otherwise only when there are two matches.
C14_RepetitionScan ==
    Loaded =>
        (is_repetition(Board) <=>
            \/ \E back \in RepMatches : back <= height
            \/ Cardinality(RepMatches) >= 2)

\* one match, inside the search subtree: a repetition
C14_Witness ==
    Loaded /\ Cardinality(RepMatches) = 1 /\ is_repetition(Board)

\* one match, before the search root: not a repetition
C14_WitnessRootedOnce ==
    Loaded /\ Cardinality(RepMatches) = 1 /\ ~is_repetition(Board)

\* two matches before the search root: a repetition
C14_WitnessRootedTwice ==
    Loaded /\ height = 0 /\ is_repetition(Board)

\* the key of four plies back is the current key, but the counter is below 4
C14_WitnessBeyondFifty ==
    /\ Loaded
    /\ Len(history) >= 4
    /\ KeyBack(4) = key
    /\ fifty_move_counter < 4
    /\ height >= 4
    /\ ~is_repetition(Board)

\* the key of two plies back is the current key: not compared
C14_WitnessTwoBack ==
    /\ Loaded
    /\ Len(history) >= 2
    /\ KeyBack(2) = key
    /\ fifty_move_counter >= 2
    /\ height >= 2
    /\ ~is_repetition(Board)

\* the history holds moves only (no null move), all of them reversible
ReversibleGame ==
    /\ \A i \in DOMAIN history : all_kings(history[i].piece_layout) # {}
    /\ \A i \in 1..(Len(history) - 1) :
           history[i + 1].fifty_move_counter = history[i].fifty_move_counter + 1
    /\ history # <<>> =>
           fifty_move_counter = history[Len(history)].fifty_move_counter + 1

\* the earlier plies with the same side to move on which the current key
\* occurred
Occurrences ==
    {back \in 1..Len(history) : back % 2 = 0 /\ KeyBack(back) = key}

\* C15 as stated: after any sequence of reversible moves from a loaded
\* position, outcome is Draw(Repetition) when the current key occurred on at
\* least two earlier plies with the same side to move, and is not at the
\* first or second occurrence.
C15_ThirdOccurrenceAlways ==
    (Loaded /\ ReversibleGame) =>
        (outcome(Board, chess960) = "Draw(Repetition)" <=> Cardinality(Occurrences) >= 2)

\* C15, for counters below 100: after any sequence of reversible moves from
\* a loaded position with fifty_move_counter < 100, outcome is
\* Draw(Repetition) exactly when the current key occurred on at least two
\* earlier plies with the same side to move.
C15_ThirdOccurrence ==
    (Loaded /\ ReversibleGame /\ fifty_move_counter < 100) =>
        (outcome(Board, chess960) = "Draw(Repetition)" <=> Cardinality(Occurrences) >= 2)

\* the third occurrence, reported
C15_Witness ==
    /\ Loaded
    /\ ReversibleGame
    /\ Cardinality(Occurrences) = 2
    /\ outcome(Board, chess960) = "Draw(Repetition)"

\* the second occurrence: the game goes on
C15_WitnessSecond ==
    /\ Loaded
    /\ ReversibleGame
    /\ Cardinality(Occurrences) = 1
    /\ outcome(Board, chess960) = "Ongoing"

-----------------------------------------------------------------------------
(* Claims about material.                                                  *)

\* the squares of the mailbox holding a piece of colour c and type pt
MatSquares(c, pt) == {s \in Squares : piece_array[s] = PieceNew(c, pt)}

\* side c has exactly a king and n knights / n bishops
KingAndKnights(c, n) ==
    /\ Cardinality(RefPiecesOf(piece_array, c)) = n + 1
    /\ Cardinality(MatSquares(c, "Knight")) = n
KingAndBishops(c, n) ==
    /\ Cardinality(RefPiecesOf(piece_array, c)) = n + 1
    /\ Cardinality(MatSquares(c, "Bishop")) = n

\* the material sets of C16 that are draws
MatDrawn ==
    \/ KingAndKnights(White, 0) /\ KingAndKnights(Black, 0)
    \/ \E c \in {White, Black} : KingAndKnights(c, 1) /\ KingAndKnights(flip(c), 0)
    \/ /\ KingAndBishops(White, 1)
       /\ KingAndBishops(Black, 1)
       /\ \E parity \in {0, 1} :
              \A s \in MatSquares(White, "Bishop") \cup MatSquares(Black, "Bishop") :
                  (RankOf(s) + FileOf(s)) % 2 = parity

\* the material sets of C16 that are not
MatNotDrawn ==
    \/ \E c \in {White, Black} : KingAndKnights(c, 2) /\ KingAndKnights(flip(c), 0)
    \/ \E c \in {White, Black}, pt \in {"Pawn", "Rook", "Queen"} : MatSquares(c, pt) # {}

\* no other end condition applies: the counter is below 100, the position is
\* not a third occurrence and the side to move has a move that leaves its
\* king safe
NoOtherEnd ==
    /\ fifty_move_counter < 100
    /\ Cardinality(Occurrences) < 2
    /\ \E e \in Entries(generate_moves(Board, chess960)) : make_move_base(Board, e.mov).ok

\* C16: is_insufficient_material is true for K vs K, K+N vs K and K+B vs K+B
\* with all bishops on squares of one colour, false for K+N+N vs K and
\* whenever a side has a pawn, rook or queen; and when no other end condition
\* applies outcome is Draw(InsufficientMaterial) for the former and Ongoing
\* for the latter.
C16_InsufficientMaterial ==
    Loaded =>
        /\ MatDrawn => is_insufficient_material(Board)
        /\ MatNotDrawn => ~is_insufficient_material(Board)
        /\ (MatDrawn /\ NoOtherEnd) =>
               outcome(Board, chess960) = "Draw(InsufficientMaterial)"
        /\ (MatNotDrawn /\ NoOtherEnd) => outcome(Board, chess960) = "Ongoing"

\* after a bishop move, K+B vs K+B on one colour: drawn
C16_Witness ==
    /\ last_op = "make_ok"
    /\ KingAndBishops(White, 1)
    /\ KingAndBishops(Black, 1)
    /\ outcome(Board, chess960) = "Draw(InsufficientMaterial)"

\* K+N+N vs K: the game goes on
C16_WitnessKnights ==
    /\ Loaded
    /\ \E c \in {White, Black} : KingAndKnights(c, 2) /\ KingAndKnights(flip(c), 0)
    /\ outcome(Board, chess960) = "Ongoing"

\* K vs K and K+N vs K: drawn
C16_WitnessBareKings ==
    /\ Loaded
    /\ KingAndKnights(White, 0)
    /\ KingAndKnights(Black, 0)
    /\ outcome(Board, chess960) = "Draw(InsufficientMaterial)"
C16_WitnessKnight ==
    /\ Loaded
    /\ KingAndKnights(White, 1)
    /\ KingAndKnights(Black, 0)
    /\ outcome(Board, chess960) = "Draw(InsufficientMaterial)"

\* a drawn material set with the counter at 100: the other end condition wins
C16_WitnessOtherEnd ==
    Loaded /\ MatDrawn /\ outcome(Board, chess960) = "Draw(FiftyMoves)"

-----------------------------------------------------------------------------
(* Claims about the null move.                                             *)

\* C17: make_nullmove changes only side (flipped), ep_sq (cleared), the key
\* (side key and the en passant key it held XORed out), threats (those of the
\* new side not to move), ply, height and the history stack (one Undo
\* pushed), and leaves pieces, mailbox, castling rights, fifty and the pawn,
\* non-pawn, minor and major keys unchanged; an unmake_nullmove that directly
\* follows yields a Board equal on every field to the one before
\* make_nullmove.
C17_NullmoveFrame ==
    /\ last_op = "null" =>
           /\ pieces = before[1].pieces
           /\ piece_array = before[1].piece_array
           /\ castle_perm = before[1].castle_perm
           /\ fifty_move_counter = before[1].fifty_move_counter
           /\ pawn_key = before[1].pawn_key
           /\ non_pawn_key = before[1].non_pawn_key
           /\ minor_key = before[1].minor_key
           /\ major_key = before[1].major_key
           /\ side = flip(before[1].side)
           /\ ep_sq = NoSq
           /\ key = Xor(before[1].key,
                        {<<"side", 0>>}
                            \cup (IF before[1].ep_sq # NoSq
                                  THEN {<<"ep", FileOf(before[1].ep_sq)>>} ELSE {}))
           /\ threats.all = RefAttackedBy(piece_array, flip(side))
           /\ threats.checkers =
                  UNION {RefAttackersOf(piece_array, flip(side), k) :
                            k \in RefKings(piece_array, side)}
           /\ ply = before[1].ply + 1
           /\ height = before[1].height + 1
           /\ Len(history) = Len(before[1].history) + 1
           /\ SubSeq(history, 1, Len(history) - 1) = before[1].history
    /\ (last_op = "unnull" /\ before # <<>>) => Board = before[1]

\* a null move made with the en passant square set, and unmade
C17_Witness ==
    /\ last_op = "unnull"
    /\ before # <<>>
    /\ ep_sq # NoSq

\* a null move made after a move, with the en passant square set
C17_WitnessMade ==
    /\ last_op = "null"
    /\ before[1].ep_sq # NoSq
    /\ Len(history) = 2

-----------------------------------------------------------------------------
(* Formatting a Board as a FEN string (impl Display for Board).            *)

\* Display of a Piece: its FEN letter
PieceChar ==
    ("WP" :> "P") @@ ("WN" :> "N") @@ ("WB" :> "B") @@ ("WR" :> "R") @@ ("WQ" :> "Q") @@
    ("WK" :> "K") @@ ("BP" :> "p") @@ ("BN" :> "n") @@ ("BB" :> "b") @@ ("BR" :> "r") @@
    ("BQ" :> "q") @@ ("BK" :> "k")

DigitChars == <<"0", "1", "2", "3", "4", "5", "6", "7", "8", "9">>
FileChars == <<"a", "b", "c", "d", "e", "f", "g", "h">>

\* Display of a Square: file letter, rank digit
SquareName(sq) == <<FileChars[FileOf(sq) + 1], DigitChars[RankOf(sq) + 2]>>

\* Display of an unsigned number: its decimal digits
RECURSIVE FormatUnsigned(_)
FormatUnsigned(n) ==
    IF n < 10 THEN <<DigitChars[n + 1]>>
    ELSE FormatUnsigned(n \div 10) \o <<DigitChars[(n % 10) + 1]>>

\* the decimal digits of 2^63
TWO_POW_63 ==
    <<"9", "2", "2", "3", "3", "7", "2", "0", "3", "6", "8", "5", "4", "7", "7", "5", "8", "0", "8">>

\* `counter` when the loop over a rank reaches file f: the empty squares
\* since the last piece
EmptyRun(b, rank, f) ==
    Cardinality({g \in 0..(f - 1) :
                    \A h \in g..(f - 1) : b.piece_array[from_rank_file(rank, h)] = NoPiece})

\* what the loop writes at file f of a rank
FmtSquare(b, rank, f) ==
    IF b.piece_array[from_rank_file(rank, f)] = NoPiece THEN <<>>
    ELSE (IF EmptyRun(b, rank, f) # 0 THEN <<DigitChars[EmptyRun(b, rank, f) + 1]>> ELSE <<>>)
             \o <<PieceChar[b.piece_array[from_rank_file(rank, f)]]>>

\* one rank: its squares, the count of trailing empty squares, the separator
FmtRank(b, rank) ==
    Flatten([i \in 1..8 |-> FmtSquare(b, rank, i - 1)])
        \o (IF EmptyRun(b, rank, 8) # 0 THEN <<DigitChars[EmptyRun(b, rank, 8) + 1]>> ELSE <<>>)
        \o (IF rank # 0 THEN <<"/">> ELSE <<>>)

\* the castling field: the letters of "KQkq" whose right is held
FmtCastling(b) ==
    IF b.castle_perm = CastlingNone THEN <<"-">>
    ELSE (IF b.castle_perm.wk # NoSq THEN <<"K">> ELSE <<>>)
             \o (IF b.castle_perm.wq # NoSq THEN <<"Q">> ELSE <<>>)
             \o (IF b.castle_perm.bk # NoSq THEN <<"k">> ELSE <<>>)
             \o (IF b.castle_perm.bq # NoSq THEN <<"q">> ELSE <<>>)

\* ply / 2 + 1 in usize (a negative ply stands for 2^64 - 2 or 2^64 - 1)
FmtFullmove(b) == IF b.ply < 0 THEN TWO_POW_63 ELSE FormatUnsigned(b.ply \div 2 + 1)

\* Display::fmt, as to_string collects it
to_string(b) ==
    Flatten([i \in 1..8 |-> FmtRank(b, 8 - i)])
        \o (IF b.side = White THEN <<" ", "w">> ELSE <<" ", "b">>)
        \o <<" ">> \o FmtCastling(b)
        \o (IF b.ep_sq # NoSq THEN <<" ">> \o SquareName(b.ep_sq) ELSE <<" ", "-">>)
        \o <<" ">> \o FormatUnsigned(b.fifty_move_counter)
        \o <<" ">> \o FmtFullmove(b)

-----------------------------------------------------------------------------
(* parse_uci (src/src/board.rs).                                           *)

\* PieceType::promo_char of the promotion pieces
PromoChar == ("Knight" :> "n") @@ ("Bishop" :> "b") @@ ("Rook" :> "r") @@ ("Queen" :> "q")

\* the closure comparing the destination as it is encoded in the list
UciTo_as_encoded(m, frc) == m.to

\* the destination the closure of parse_uci compares: outside Chess960 mode a
\* castling move is king-to-rook in the list and king-to-destination in UCI
UciTo(m, frc) ==
    IF ~frc /\ is_castle(m)
    THEN CASE m.to = A1 -> C1
           [] m.to = H1 -> G1
           [] m.to = A8 -> C8
           [] m.to = H8 -> G8
           [] OTHER -> m.to
    ELSE m.to

\* the closure of parse_uci on one move of the list: "match", "no", or
\* "panic" when it unwraps the promotion piece of a move that has none
UciTest(m, from, to, uci, frc) ==
    IF m.from # from \/ UciTo(m, frc) # to THEN "no"
    ELSE IF Len(uci) = 4 THEN "match"
    ELSE IF ~is_promo(m) THEN "panic"
    ELSE IF PromoChar[promotion_type(m)] = uci[5] THEN "match"
    ELSE "no"

\* Iterator::find over the list: the first move on which the closure does not
\* say "no" decides
UciFind(ml, from, to, uci, frc) ==
    IF \A i \in DOMAIN ml : UciTest(ml[i].mov, from, to, uci, frc) = "no"
    THEN [status |-> "Err", mov |-> NoMove, reason |-> "IllegalMove"]
    ELSE IF UciTest(ml[Min({i \in DOMAIN ml : UciTest(ml[i].mov, from, to, uci, frc) # "no"})].mov,
                    from, to, uci, frc) = "panic"
    THEN [status |-> "Panic", mov |-> NoMove, reason |-> ""]
    ELSE [status |-> "Ok",
          mov |-> ml[Min({i \in DOMAIN ml : UciTest(ml[i].mov, from, to, uci, frc) # "no"})].mov,
          reason |-> ""]

UciErr(reason) == [status |-> "Err", mov |-> NoMove, reason |-> reason]

\* parse_uci: [status, mov, reason]
parse_uci(b, uci, frc) ==
    IF Len(uci) \notin 4..5 THEN UciErr("InvalidLength")
    ELSE IF uci[1] \notin DOMAIN LowerFile THEN UciErr("InvalidFromSquareFile")
    ELSE IF uci[2] \notin {"1", "2", "3", "4", "5", "6", "7", "8"}
    THEN UciErr("InvalidFromSquareRank")
    ELSE IF uci[3] \notin DOMAIN LowerFile THEN UciErr("InvalidToSquareFile")
    ELSE IF uci[4] \notin {"1", "2", "3", "4", "5", "6", "7", "8"}
    THEN UciErr("InvalidToSquareRank")
    ELSE IF Len(uci) = 5 /\ uci[5] \notin {"n", "b", "r", "q", "k"}
    THEN UciErr("InvalidPromotionPiece")
    ELSE UciFind(generate_moves(b, frc),
                 from_rank_file(DigitVal[uci[2]] - 1, LowerFile[uci[1]]),
                 from_rank_file(DigitVal[uci[4]] - 1, LowerFile[uci[3]]),
                 uci, frc)

-----------------------------------------------------------------------------
(* Strings at the boundary: positions and moves read from text, well       *)
(* formed or not, in either game mode and either build.                    *)

\* 4k3/8/8/8/8/8/8/4K3 x - - 0 1
FEN_BAD_SIDE ==
    <<"4", "k", "3", "/", "8", "/", "8", "/", "8", "/", "8", "/", "8", "/", "8", "/", "4", "K", "3", " ", "x", " ", "-", " ", "-", " ", "0", " ", "1">>

\* 4k3/8/8/8/8/8/8/4K3
FEN_NO_SPACE ==
    <<"4", "k", "3", "/", "8", "/", "8", "/", "8", "/", "8", "/", "8", "/", "8", "/", "4", "K", "3">>

\* 4k3/8/8/8/8/8/8/4K3 w
FEN_NO_CASTLING ==
    <<"4", "k", "3", "/", "8", "/", "8", "/", "8", "/", "8", "/", "8", "/", "8", "/", "4", "K", "3", " ", "w">>

\* 4k3/8/8/8/8/8/8/4K3/8 w - - 0 1
FEN_NINE_RANKS ==
    <<"4", "k", "3", "/", "8", "/", "8", "/", "8", "/", "8", "/", "8", "/", "8", "/", "4", "K", "3", "/", "8", " ", "w", " ", "-", " ", "-", " ", "0", " ", "1">>

\* 4k3/8/8/8/8/8/8/4K3 b - - 0 0
FEN_FULLMOVE_ZERO ==
    <<"4", "k", "3", "/", "8", "/", "8", "/", "8", "/", "8", "/", "8", "/", "8", "/", "4", "K", "3", " ", "b", " ", "-", " ", "-", " ", "0", " ", "0">>

\* 4k3/8/8/8/8/8/8/4K3 w - E3 0 1
FEN_EP_UPPER ==
    <<"4", "k", "3", "/", "8", "/", "8", "/", "8", "/", "8", "/", "8", "/", "8", "/", "4", "K", "3", " ", "w", " ", "-", " ", "E", "3", " ", "0", " ", "1">>

\* 4k3/8/8/8/8/8/8/4K3 w - - 07 1
FEN_LEADING_ZERO ==
    <<"4", "k", "3", "/", "8", "/", "8", "/", "8", "/", "8", "/", "8", "/", "8", "/", "4", "K", "3", " ", "w", " ", "-", " ", "-", " ", "0", "7", " ", "1">>

\* r3k2r/8/8/8/8/8/8/R3K2R w KQkq - 0 1
FEN_KQ ==
    <<"r", "3", "k", "2", "r", "/", "8", "/", "8", "/", "8", "/", "8", "/", "8", "/", "8", "/", "R", "3", "K", "2", "R", " ", "w", " ", "K", "Q", "k", "q", " ", "-", " ", "0", " ", "1">>

\* r3k2r/8/8/8/8/8/8/R3K2R w HAha - 0 1
FEN_SHREDDER ==
    <<"r", "3", "k", "2", "r", "/", "8", "/", "8", "/", "8", "/", "8", "/", "8", "/", "8", "/", "R", "3", "K", "2", "R", " ", "w", " ", "H", "A", "h", "a", " ", "-", " ", "0", " ", "1">>

\* 4k3/8/8/8/8/8/8/4K3 w - - 0 1 with an e-acute in place of the side
FEN_NON_ASCII ==
    <<"4", "k", "3", "/", "8", "/", "8", "/", "8", "/", "8", "/", "8", "/", "8", "/", "4", "K", "3", " ", "U+00E9", " ", "-", " ", "-", " ", "0", " ", "1">>

\* r3k2r/8/8/8/8/8/8/R3K2R b KQkq - 0 1
FEN_KQ_BLACK ==
    <<"r", "3", "k", "2", "r", "/", "8", "/", "8", "/", "8", "/", "8", "/", "8", "/", "8", "/", "R", "3", "K", "2", "R", " ", "b", " ", "K", "Q", "k", "q", " ", "-", " ", "0", " ", "1">>

\* r3k2r/8/8/8/8/8/8/R3K2R b HAha - 0 1
FEN_SHREDDER_BLACK ==
    <<"r", "3", "k", "2", "r", "/", "8", "/", "8", "/", "8", "/", "8", "/", "8", "/", "8", "/", "R", "3", "K", "2", "R", " ", "b", " ", "H", "A", "h", "a", " ", "-", " ", "0", " ", "1">>

\* 1r2k2r/2pb1pp1/2pp4/p1n5/2P4p/PP2P2P/1qB2PP1/R2QKN1R w KQk - 0 20
FEN_CASTLE_BLOCKED ==
    <<"1", "r", "2", "k", "2", "r", "/", "2", "p", "b", "1", "p", "p", "1", "/", "2", "p", "p", "4", "/", "p", "1", "n", "5", "/", "2", "P", "4", "p", "/", "P", "P", "2", "P", "2", "P", "/", "1", "q", "B", "2", "P", "P", "1", "/", "R", "2", "Q", "K", "N", "1", "R", " ", "w", " ", "K", "Q", "k", " ", "-", " ", "0", " ", "2", "0">>

\* r3k2r/8/8/8/8/8/6p1/R3K2R w KQkq - 0 1
FEN_CASTLE_THRU ==
    <<"r", "3", "k", "2", "r", "/", "8", "/", "8", "/", "8", "/", "8", "/", "8", "/", "6", "p", "1", "/", "R", "3", "K", "2", "R", " ", "w", " ", "K", "Q", "k", "q", " ", "-", " ", "0", " ", "1">>

\* r3k2r/8/8/8/8/8/6p1/R3K2R w HAha - 0 1
FEN_CASTLE_THRU_960 ==
    <<"r", "3", "k", "2", "r", "/", "8", "/", "8", "/", "8", "/", "8", "/", "8", "/", "6", "p", "1", "/", "R", "3", "K", "2", "R", " ", "w", " ", "H", "A", "h", "a", " ", "-", " ", "0", " ", "1">>

\* k3r3/8/8/8/8/8/8/R3K2R w KQ - 0 1
FEN_CASTLE_CHECK ==
    <<"k", "3", "r", "3", "/", "8", "/", "8", "/", "8", "/", "8", "/", "8", "/", "8", "/", "R", "3", "K", "2", "R", " ", "w", " ", "K", "Q", " ", "-", " ", "0", " ", "1">>

\* k3r3/8/8/8/8/8/8/R3K2R w HA - 0 1
FEN_CASTLE_CHECK_960 ==
    <<"k", "3", "r", "3", "/", "8", "/", "8", "/", "8", "/", "8", "/", "8", "/", "8", "/", "R", "3", "K", "2", "R", " ", "w", " ", "H", "A", " ", "-", " ", "0", " ", "1">>

\* 4k3/8/8/8/8/8/8/3K3R w K - 0 1
FEN_CASTLE_KING_AWAY ==
    <<"4", "k", "3", "/", "8", "/", "8", "/", "8", "/", "8", "/", "8", "/", "8", "/", "3", "K", "3", "R", " ", "w", " ", "K", " ", "-", " ", "0", " ", "1">>

\* 4k3/8/8/8/8/8/8/4K3 w KQ - 0 1
FEN_CASTLE_NO_ROOK ==
    <<"4", "k", "3", "/", "8", "/", "8", "/", "8", "/", "8", "/", "8", "/", "8", "/", "4", "K", "3", " ", "w", " ", "K", "Q", " ", "-", " ", "0", " ", "1">>

\* the strings handed to set_from_fen
ParseFens ==
    {FEN_CASTLE, FEN_PROMO, FEN_EP_PIN, FEN_FIFTY, FEN_KQ, FEN_SHREDDER,
     FEN_KQ_BLACK, FEN_SHREDDER_BLACK,
     FEN_CASTLE_BLOCKED, FEN_CASTLE_THRU, FEN_CASTLE_THRU_960, FEN_CASTLE_CHECK,
     FEN_CASTLE_CHECK_960, FEN_CASTLE_KING_AWAY, FEN_CASTLE_NO_ROOK,
     FEN_FRC_SWAP, FEN_FRC_ROOK_STAYS,
     FEN_NON_ASCII, FEN_BAD_SIDE, FEN_NO_SPACE, FEN_NO_CASTLING, FEN_NINE_RANKS,
     FEN_FULLMOVE_ZERO, FEN_EP_UPPER, FEN_LEADING_ZERO}

\* the strings handed to set_from_fen when a position is already set up: a
\* position, and strings refused at each stage of the load
ReloadFens ==
    {FEN_FIFTY, FEN_KQ, FEN_SHREDDER, FEN_NON_ASCII, FEN_NO_SPACE, FEN_NO_CASTLING, FEN_BAD_SIDE}

\* the strings handed to parse_uci
UciStrings ==
    {<<"e", "1", "d", "1">>,
     <<"e", "1", "d", "1", "q">>,
     <<"e", "1", "c", "1">>,
     <<"e", "1", "g", "1">>,
     <<"e", "1", "g", "1", "n">>,
     <<"b", "7", "b", "8", "q">>,
     <<"b", "7", "a", "8", "n">>,
     <<"b", "7", "b", "8", "k">>,
     <<"b", "7", "b", "8">>,
     <<"e", "1">>,
     <<"e", "1", "d", "1", "q", "q">>,
     <<"i", "1", "d", "1">>,
     <<"e", "9", "d", "1">>,
     <<"e", "1", "x", "1">>,
     <<"e", "1", "d", "0">>,
     <<"e", "1", "d", "1", "p">>,
     <<"e", "8", "d", "8">>,
     <<"e", "8", "g", "8">>,
     <<"e", "8", "c", "8">>,
     <<"e", "1", "h", "1">>,
     <<"e", "1", "a", "1">>,
     <<"e", "8", "h", "8">>,
     <<"e", "8", "a", "8">>,
     <<"f", "1", "g", "1">>}

InitParse ==
    /\ InitBoard
    /\ chess960 \in BOOLEAN
    /\ overflow_checks \in BOOLEAN
    /\ history_table = HistoryTableNew
    /\ double_history_table = DoubleHistoryTableNew

\* the call aborts: on a panic, and on an integer overflow in a build that
\* checks for it
Aborts(status) ==
    \/ status = "Panic"
    \/ overflow_checks /\ status \in {"OkWrapped", "ErrWrapped"}

\* set_from_fen on any of the strings; `before` keeps the Board it was
\* called on and the string.  Nothing runs after an abort, and a load after
\* parse_uci finds the Board the load before parse_uci left.
ParseFen ==
    /\ last_op \in {"new", "load", "load_err"}
    /\ \E fen \in (IF last_op = "new" THEN ParseFens ELSE ReloadFens) :
           \E r \in {set_from_fen(Board, fen, chess960)} :
               /\ IF Aborts(r.status)
                  THEN /\ SetBoard(Board)
                       /\ last_op' = "abort"
                  ELSE /\ SetBoard(r.b)
                       /\ last_op' = IF r.status \in {"Ok", "OkWrapped"}
                                     THEN "load" ELSE "load_err"
               /\ last_move' = NoMove
               /\ before' = <<Board, fen>>
               /\ UNCHANGED <<chess960, overflow_checks, history_table, double_history_table>>

\* parse_uci on any of the strings, on a loaded position; `last_move` is the
\* move returned and `before` keeps the string and the reason.  parse_uci
\* takes &self: the Board is what the load left, whatever was parsed before.
ParseUci ==
    /\ last_op = "load"
    /\ \E uci \in UciStrings :
           \E r \in {parse_uci(Board, uci, chess960)} :
               /\ SetBoard(Board)
               /\ last_op' = CASE r.status = "Panic" -> "abort"
                               [] r.status = "Ok" -> "uci_ok"
                               [] OTHER -> "uci_err"
               /\ last_move' = r.mov
               /\ before' = <<Board, uci, r.reason>>
               /\ UNCHANGED <<chess960, overflow_checks, history_table, double_history_table>>

NextParse ==
    \/ ParseFen
    \/ ParseUci

SpecParse == InitParse /\ [][NextParse]_vars

-----------------------------------------------------------------------------
(* Claims about the strings read and written.                              *)

\* C18: for every FEN string f accepted by set_from_fen, with its castling
\* field in KQkq form or in Shredder file-letter form, to_string of the Board
\* loaded is exactly f.
C18_FenRoundTrip == last_op = "load" => to_string(Board) = before[2]

\* the same for the strings with a Shredder castling field alone
C18_ShredderRoundTrip ==
    (last_op = "load" /\ before[2] \in {FEN_SHREDDER, FEN_FRC_SWAP, FEN_FRC_ROOK_STAYS})
        => to_string(Board) = before[2]

\* the strings in KQkq form written the way to_string writes them do come back
C18_CanonicalRoundTrip ==
    (last_op = "load" /\ before[2] \in {FEN_CASTLE, FEN_PROMO, FEN_EP_PIN, FEN_FIFTY, FEN_KQ})
        => to_string(Board) = before[2]

\* the fields C19 lists for the reset state: no pieces, side White, no
\* castling rights, no en passant square, counters and keys zero
ResetState ==
    /\ pieces = LayoutNull
    /\ piece_array = PieceArrayEmpty
    /\ side = White
    /\ castle_perm = CastlingNone
    /\ ep_sq = NoSq
    /\ fifty_move_counter = 0
    /\ ply = 0
    /\ height = 0
    /\ key = {}
    /\ pawn_key = {}
    /\ non_pawn_key = [c \in {White, Black} |-> {}]
    /\ minor_key = {}
    /\ major_key = {}

\* C19: whenever set_from_fen returns an error, the Board is field for field
\* the one before the call, or is in the reset state.
C19_ErrorLeavesBoardUnchangedOrReset ==
    last_op = "load_err" => (Board = before[1] \/ ResetState)

\* a string that is not ASCII is refused before the Board is touched
C19_NonAsciiLeavesBoardUnchanged ==
    (last_op = "load_err" /\ before[2] = FEN_NON_ASCII) => Board = before[1]

\* a position is on the board and the string that is not ASCII was refused
C19_WitnessNonAscii ==
    /\ last_op = "load_err"
    /\ before[2] = FEN_NON_ASCII
    /\ pieces # LayoutNull

\* the same for the string without a space alone, which fails right after
\* the reset
C19_ResetOnMissingSpace ==
    (last_op = "load_err" /\ before[2] = FEN_NO_SPACE) => (Board = before[1] \/ ResetState)

\* C20: set_from_fen and parse_uci succeed or return an error value; no
\* input makes them abort.
C20_NeverAborts == last_op # "abort"

\* the inputs C20 names, one by one: a 5-character UCI string,
C20_UciNeverAborts == ~(last_op = "abort" /\ Len(before) = 3)
\* a KQkq castling field in Chess960 mode,
C20_CastlingNotationNeverAborts ==
    ~(last_op = "abort" /\ Len(before) = 2 /\ before[2] \in {FEN_KQ, FEN_CASTLE, FEN_SHREDDER})
\* a board part with nine ranks,
C20_NineRanksNeverAborts ==
    ~(last_op = "abort" /\ Len(before) = 2 /\ before[2] = FEN_NINE_RANKS)
\* a fullmove number of 0
C20_FullmoveZeroNeverAborts ==
    ~(last_op = "abort" /\ Len(before) = 2 /\ before[2] = FEN_FULLMOVE_ZERO)

\* where they do not abort the error carries a reason: a Shredder castling
\* field outside Chess960 mode is refused, an unknown move is IllegalMove
C20_ErrorsCarryReason ==
    /\ (last_op = "load" /\ ~chess960) => before[2] # FEN_SHREDDER
    /\ last_op = "uci_err" => before[3] # ""

-----------------------------------------------------------------------------
(* Castling moves read from text.                                          *)

\* the four standard castling strings with the king's square and the rook's
\* square of the move they stand for
StandardCastlingUci ==
    {[uci |-> <<"e", "1", "g", "1">>, from |-> E1, to |-> H1],
     [uci |-> <<"e", "1", "c", "1">>, from |-> E1, to |-> A1],
     [uci |-> <<"e", "8", "g", "8">>, from |-> E8, to |-> H8],
     [uci |-> <<"e", "8", "c", "8">>, from |-> E8, to |-> A8]}

\* the castling moves of the generated list of the position parse_uci ran on
GeneratedCastles ==
    {e.mov : e \in {x \in Entries(generate_moves(Board, chess960)) : is_castle(x.mov)}}

\* parse_uci has returned, with a move or with an error
UciReturned == last_op \in {"uci_ok", "uci_err"}

\* C21: with the CHESS960 flag off, parse_uci of e1g1, e1c1, e8g8 or e8c8
\* returns the generated castling move in its king-captures-rook encoding
\* (to = H1, A1, H8, A8) whenever that castling move is generated; with the
\* flag on, a castling move is returned for the king-to-rook-square string
\* and for no other string.
C21_CastlingUci ==
    UciReturned =>
        /\ ~chess960 =>
              \A c \in StandardCastlingUci :
                  (before[2] = c.uci /\ MoveNewWithFlags(c.from, c.to, "Castle") \in GeneratedCastles)
                      => (last_op = "uci_ok" /\ last_move = MoveNewWithFlags(c.from, c.to, "Castle"))
        /\ chess960 =>
              /\ \A m \in GeneratedCastles :
                     before[2] = SquareName(m.from) \o SquareName(m.to)
                         => (last_op = "uci_ok" /\ last_move = m)
              /\ (last_op = "uci_ok" /\ is_castle(last_move))
                     => before[2] = SquareName(last_move.from) \o SquareName(last_move.to)

\* e8g8 read with the flag off as Black's king-captures-rook move
C21_Witness ==
    /\ last_op = "uci_ok"
    /\ ~chess960
    /\ before[2] = <<"e", "8", "g", "8">>
    /\ last_move = MoveNewWithFlags(E8, H8, "Castle")

\* e1c1 read with the flag off
C21_WitnessQueenside ==
    /\ last_op = "uci_ok"
    /\ ~chess960
    /\ before[2] = <<"e", "1", "c", "1">>
    /\ last_move = MoveNewWithFlags(E1, A1, "Castle")

\* with the flag on e1h1 is the castling move
C21_WitnessFrc ==
    /\ last_op = "uci_ok"
    /\ chess960
    /\ before[2] = <<"e", "1", "h", "1">>
    /\ is_castle(last_move)

\* and e1g1 is refused although the castling move is generated
C21_WitnessFrcRefused ==
    /\ last_op = "uci_err"
    /\ chess960
    /\ before[2] = <<"e", "1", "g", "1">>
    /\ MoveNewWithFlags(E1, H1, "Castle") \in GeneratedCastles

\* king and rook next to each other: f1g1 castles
C21_WitnessFrcAdjacent ==
    /\ last_op = "uci_ok"
    /\ chess960
    /\ before[2] = <<"f", "1", "g", "1">>
    /\ last_move = MoveNewWithFlags(F1, G1, "Castle")

-----------------------------------------------------------------------------
(* Castling: the generator against is_pseudo_legal.                        *)

\* every castling-flagged encoding
CastleMoves == {MoveNewWithFlags(f, t, "Castle") : f \in Squares, t \in Squares}

\* the castling moves generate_moves emits
EmittedCastles(b, frc) ==
    {e.mov : e \in {x \in Entries(generate_moves(b, frc)) : is_castle(x.mov)}}

\* the squares strictly between two squares of one rank
BetweenOnRank(a, b) ==
    {s \in Squares :
        /\ RankOf(a) = RankOf(b)
        /\ RankOf(s) = RankOf(a)
        /\ \/ FileOf(a) < FileOf(s) /\ FileOf(s) < FileOf(b)
           \/ FileOf(b) < FileOf(s) /\ FileOf(s) < FileOf(a)}

\* the wing whose castling right of the side to move has its rook square on t
CastleWing(t) ==
    IF t = kingside(castle_perm, side) THEN "kingside"
    ELSE IF t = queenside(castle_perm, side) THEN "queenside"
    ELSE "none"

\* the conditions C23 lists for the castling move m, read on the mailbox
CastleAllowed(m) ==
    /\ RefKings(piece_array, side) \cap RefAttackedBy(piece_array, flip(side)) = {}
    /\ CastleWing(m.to) # "none"
    /\ LET king_dst == relative_to(IF CastleWing(m.to) = "kingside" THEN G1 ELSE C1, side)
           rook_dst == relative_to(IF CastleWing(m.to) = "kingside" THEN F1 ELSE D1, side)
           king_path == BetweenOnRank(m.from, king_dst)
           rook_path == BetweenOnRank(m.from, m.to)
       IN  /\ \A s \in (king_path \cup rook_path \cup {king_dst, rook_dst}) \ {m.from, m.to} :
                  piece_array[s] = NoPiece
           /\ (king_path \cup {m.from}) \cap RefAttackedBy(piece_array, flip(side)) = {}

\* C23, its first half: a castling move is emitted, and accepted by
\* is_pseudo_legal, only under the conditions listed.
C23_CastlingOnlyIf ==
    Loaded =>
        LET emitted == EmittedCastles(Board, chess960)
        IN  \A m \in CastleMoves :
                (m \in emitted \/ is_pseudo_legal(Board, m)) => CastleAllowed(m)

\* C23, its second half: the generator and is_pseudo_legal decide alike.
C23_CastlingDecidedAlike ==
    Loaded =>
        LET emitted == EmittedCastles(Board, chess960)
        IN  \A m \in CastleMoves : m \in emitted <=> is_pseudo_legal(Board, m)

\* C23: a castling move is emitted by the generator, and accepted by
\* is_pseudo_legal, only if the side to move is not in check, the right of
\* the wing exists with the move's `to` on its rook square, the squares of
\* king_path, rook_path, king destination and rook destination are empty
\* apart from king and rook, and no square of king_path nor the king's square
\* is attacked; generator and is_pseudo_legal decide alike in both modes.
C23_Castling == C23_CastlingOnlyIf /\ C23_CastlingDecidedAlike

\* the side to move holds a castling right only with its king on e1 / e8,
\* or the game is Chess960
KingHome ==
    \/ chess960
    \/ kingside(castle_perm, side) = NoSq /\ queenside(castle_perm, side) = NoSq
    \/ piece_array[relative_to(E1, side)] = PieceNew(side, "King")

\* with the king at home they do decide alike
C23_DecidedAlikeKingHome == KingHome => C23_CastlingDecidedAlike

\* a castling move is offered on one wing and refused on the other for an
\* attacked square of the king's path
C23_Witness ==
    /\ Loaded
    /\ LET emitted == EmittedCastles(Board, chess960)
       IN  /\ emitted # {}
           /\ \E m \in CastleMoves :
                  /\ CastleWing(m.to) # "none"
                  /\ piece_array[m.from] = PieceNew(side, "King")
                  /\ BetweenOnRank(m.from, relative_to(IF CastleWing(m.to) = "kingside" THEN G1 ELSE C1, side))
                         \cap RefAttackedBy(piece_array, flip(side)) # {}
                  /\ m \notin emitted
                  /\ ~is_pseudo_legal(Board, m)

\* a castling move offered in Chess960 mode
C23_WitnessFrc ==
    /\ Loaded
    /\ chess960
    /\ \E m \in EmittedCastles(Board, chess960) : is_pseudo_legal(Board, m)

\* the rights are there and the side to move is in check
C23_WitnessInCheck ==
    /\ Loaded
    /\ threats.checkers # {}
    /\ kingside(castle_perm, side) # NoSq
    /\ EmittedCastles(Board, chess960) = {}

\* the rights are there and a piece stands between king and rook
C23_WitnessBlocked ==
    /\ Loaded
    /\ kingside(castle_perm, side) = H1
    /\ piece_array[F1] # NoPiece
    /\ ~is_pseudo_legal(Board, MoveNewWithFlags(E1, H1, "Castle"))

-----------------------------------------------------------------------------
(* Pawn moves and the promotion flag.                                      *)

\* the moves of a pawn of the side to move that is_pseudo_legal accepts
AcceptedPawnMoves ==
    {m \in EncodedMoves :
        /\ piece_array[m.from] = PieceNew(side, "Pawn")
        /\ is_pseudo_legal(Board, m)}

\* the rank a pawn of colour c promotes on
LastRank(c) == IF c = White THEN 7 ELSE 0

\* C24: for every move of a pawn of the side to move, is_pseudo_legal accepts
\* the move only if its promotion flag is set exactly when the destination
\* square is on the last rank.
C24_PromotionFlagIffLastRank ==
    Loaded => \A m \in AcceptedPawnMoves : is_promo(m) <=> RankOf(m.to) = LastRank(side)

\* C24, one half: an unflagged pawn move to the last rank is rejected
C24_UnflaggedToLastRankRejected ==
    Loaded => \A m \in AcceptedPawnMoves : RankOf(m.to) = LastRank(side) => is_promo(m)

\* a pawn stands before the last rank and its flagged push is accepted
C24_WitnessPromotion ==
    /\ Loaded
    /\ \E m \in AcceptedPawnMoves : is_promo(m) /\ RankOf(m.to) = LastRank(side)

\* the flagged move short of the last rank that is accepted
C24_WitnessFlaggedShort ==
    /\ Loaded
    /\ \E m \in AcceptedPawnMoves : is_promo(m) /\ RankOf(m.to) # LastRank(side)

-----------------------------------------------------------------------------
(* Upcoming repetition: has_game_cycle and the cuckoo table.               *)

\* the word of 64 one bits: !x is x XOR this word.  No XOR of Zobrist keys
\* gives it, the keys being random.
ALL_ONES == {<<"ones", 0>>}
BitNot(k) == Xor(k, ALL_ONES)

NonPawnPieces == {p \in Pieces : piece_type[p] # "Pawn"}

\* the cuckoo table: for every non-pawn piece and every two squares a < b it
\* reaches one from the other on an empty board, the key
\* piece[a] ^ piece[b] ^ side with the move a-b.  The entries whose key is diff:
CuckooSlots(diff) ==
    {xy \in diff \X diff :
        /\ xy[1][1] \in NonPawnPieces
        /\ xy[1][1] = xy[2][1]
        /\ xy[1][2] < xy[2][2]
        /\ diff = {xy[1], xy[2]} \cup hash_side({})
        /\ xy[2][2] \in attacks_by_type(piece_type[xy[1][1]], xy[1][2], {})}

\* cuckoo::MOVES[slot] of the slot found by h1, h2 for diff
CuckooMove(diff) ==
    LET xy == CHOOSE e \in CuckooSlots(diff) : TRUE
    IN  MoveNew(xy[1][2], xy[2][2])

\* old_key(i): the key stored i entries back in the history
OldKey(b, i) == b.history[Len(b.history) - i + 1].key

\* the bound of the loop
CycleEnd(b) == Min({b.fifty_move_counter, Len(b.history)})

\* what has_game_cycle returns once diff is found in the table with nothing
\* between the squares of its move
CycleVerdict(b, search_ply, i, mv) ==
    IF search_ply > i THEN "true"
    ELSE IF b.piece_array[mv.from] = NoPiece /\ b.piece_array[mv.to] = NoPiece THEN "panic"
    ELSE IF colour[IF b.piece_array[mv.from] # NoPiece
                   THEN b.piece_array[mv.from] ELSE b.piece_array[mv.to]] = b.side
    THEN "true"
    ELSE "false"

\* the loop of has_game_cycle entering distance i, `other` as left by the
\* distance before
RECURSIVE CycleScan(_, _, _, _)
CycleScan(b, search_ply, i, other) ==
    IF i > CycleEnd(b) THEN "false"
    ELSE LET other_i == Xor(other, BitNot(Xor(OldKey(b, i), OldKey(b, i - 1))))
             diff == Xor(b.key, OldKey(b, i))
         IN  IF other_i # {} THEN CycleScan(b, search_ply, i + 2, other_i)
             ELSE IF CuckooSlots(diff) = {} THEN CycleScan(b, search_ply, i + 2, other_i)
             ELSE IF occupied(b.pieces)
                        \cap RAY_BETWEEN[CuckooMove(diff).from][CuckooMove(diff).to] = {}
             THEN CycleVerdict(b, search_ply, i, CuckooMove(diff))
             ELSE CycleScan(b, search_ply, i + 2, other_i)

\* has_game_cycle(ply): "true", "false", or "panic" for the unwrap of the
\* piece on neither square
has_game_cycle(b, search_ply) ==
    IF CycleEnd(b) < 3 THEN "false"
    ELSE CycleScan(b, search_ply, 3, BitNot(Xor(b.key, OldKey(b, 1))))

\* r3k3/8/N7/8/8/8/8/4K2R w - - 10 20
FEN_CYCLE ==
    <<"r", "3", "k", "3", "/", "8", "/", "N", "7", "/", "8", "/", "8", "/", "8", "/", "8", "/", "4", "K", "2", "R", " ", "w", " ", "-", " ", "-", " ", "1", "0", " ", "2", "0">>

\* r3k3/8/N7/8/8/8/8/4K2R w - - 0 1
FEN_CYCLE_FRESH ==
    <<"r", "3", "k", "3", "/", "8", "/", "N", "7", "/", "8", "/", "8", "/", "8", "/", "8", "/", "4", "K", "2", "R", " ", "w", " ", "-", " ", "-", " ", "0", " ", "1">>

CycleFens == {FEN_CYCLE, FEN_CYCLE_FRESH}

\* the plies of history the games below reach
MaxCycleHistory == 5

\* the squares the games below are played on: the black rook on a8, a7, a5,
\* b8, c8, the white knight on a6 and c5, the white rook on h1, h2, h3
CycleSquares ==
    {A8, from_rank_file(6, 0), from_rank_file(4, 0),
     from_rank_file(7, 1), from_rank_file(7, 2),
     from_rank_file(5, 0), from_rank_file(4, 2),
     H1, from_rank_file(1, 7), from_rank_file(2, 7)}

\* the values of the argument ply: the root, and nodes 4 and 6 plies deep
PlyArgs == {0, 4, 6}

CycleSetFromFen ==
    /\ last_op = "new"
    /\ \E fen \in CycleFens :
           \E r \in {set_from_fen(Board, fen, chess960)} :
               /\ r.status = "Ok"
               /\ SetBoard(r.b)
    /\ last_op' = "load"
    /\ last_move' = NoMove
    /\ before' = <<>>
    /\ UNCHANGED <<chess960, overflow_checks, history_table, double_history_table>>

CycleMakeMove ==
    /\ Loaded
    /\ Len(history) < MaxCycleHistory
    /\ \E e \in Entries(generate_moves(Board, chess960)) :
           /\ e.mov.from \in CycleSquares
           /\ e.mov.to \in CycleSquares
           /\ \E r \in {make_move_base(Board, e.mov)} :
                  /\ SetBoard(r.board)
                  /\ last_op' = IF r.ok THEN "make_ok" ELSE "make_fail"
                  /\ last_move' = e.mov
    /\ before' = <<>>
    /\ UNCHANGED <<chess960, overflow_checks, history_table, double_history_table>>

CycleMakeNullmove ==
    /\ Loaded
    /\ Len(history) < MaxCycleHistory
    /\ ~in_check(Board)
    /\ SetBoard(make_nullmove(Board))
    /\ last_op' = "null"
    /\ last_move' = NoMove
    /\ before' = <<>>
    /\ UNCHANGED <<chess960, overflow_checks, history_table, double_history_table>>

NextCycle ==
    \/ CycleSetFromFen
    \/ CycleMakeMove
    \/ CycleMakeNullmove

SpecCycle == Init /\ [][NextCycle]_vars

\* the odd distances 3, 5, ... up to the bound at which the XOR of the
\* current key with the key that far back is a stored diff whose move has no
\* occupied square strictly between its squares
CycleDistances ==
    {i \in 3..CycleEnd(Board) :
        /\ i % 2 = 1
        /\ CuckooSlots(Xor(key, OldKey(Board, i))) # {}
        /\ \A xy \in CuckooSlots(Xor(key, OldKey(Board, i))) :
               \A sq \in RAY_BETWEEN[xy[1][2]][xy[2][2]] : piece_array[sq] = NoPiece}

\* C25: has_game_cycle(ply) returns false when min(fifty_move_counter,
\* history length) < 3; otherwise it inspects only the odd distances 3, 5, ...
\* up to that bound, and reports a cycle when the XOR of the current key with
\* the key at such a distance is a stored cuckoo diff whose move has no
\* occupied square strictly between its from and to squares.
C25_GameCycle ==
    Loaded =>
        \A p \in PlyArgs :
            /\ CycleEnd(Board) < 3 => has_game_cycle(Board, p) = "false"
            /\ CycleEnd(Board) >= 3 =>
                   (has_game_cycle(Board, p) = "true" <=> CycleDistances # {})

\* C25, the parts that hold: nothing is reported below three plies, and a
\* cycle is reported only when some odd distance within the bound matches
C25_GameCycleOnlyIf ==
    Loaded =>
        \A p \in PlyArgs :
            /\ CycleEnd(Board) < 3 => has_game_cycle(Board, p) = "false"
            /\ has_game_cycle(Board, p) = "true" => CycleDistances # {}
            /\ has_game_cycle(Board, p) # "panic"

\* a cycle at distance 3 alone is reported
C25_DistanceThree ==
    (Loaded /\ 3 \in CycleDistances /\ Xor(Xor(key, OldKey(Board, 1)), Xor(OldKey(Board, 2), OldKey(Board, 3))) = {})
        => \A p \in PlyArgs : has_game_cycle(Board, p) = "true"

\* a match at distance 3 reported
C25_WitnessThree ==
    /\ Loaded
    /\ CycleEnd(Board) >= 3
    /\ 3 \in CycleDistances
    /\ has_game_cycle(Board, 4) = "true"

\* a match at distance 5 only, after five moves none of which is a null
\* move, the three moves of the side that moved last leaving its pieces where
\* they were and the stored move being one of the side to move: not reported
C25_WitnessFiveMissed ==
    /\ Loaded
    /\ CycleEnd(Board) >= 5
    /\ CycleDistances = {5}
    /\ \A i \in 1..5 : history[Len(history) - i + 1].piece_layout # LayoutNull
    /\ Xor(Xor(Xor(key, OldKey(Board, 1)), Xor(OldKey(Board, 2), OldKey(Board, 3))),
           Xor(OldKey(Board, 4), OldKey(Board, 5))) = hash_side({})
    /\ \A xy \in CuckooSlots(Xor(key, OldKey(Board, 5))) :
           colour[xy[1][1]] = side
    /\ has_game_cycle(Board, 6) = "false"

\* the diff at distance 3 is a stored move with a piece between its squares
C25_WitnessBlocked ==
    /\ Loaded
    /\ CycleEnd(Board) >= 3
    /\ CuckooSlots(Xor(key, OldKey(Board, 3))) # {}
    /\ 3 \notin CycleDistances

\* fewer than three plies to look back over
C25_WitnessShort ==
    /\ Loaded
    /\ Len(history) >= 3
    /\ fifty_move_counter < 3
    /\ CuckooSlots(Xor(key, OldKey(Board, 3))) # {}

-----------------------------------------------------------------------------
(* Chess960 start positions: every Scharnagl number.                       *)

\* rnbqkbnr/pppppppp/8/8/8/8/PPPPPPPP/RNBQKBNR w KQkq - 0 1
STARTING_FEN ==
    <<"r", "n", "b", "q", "k", "b", "n", "r", "/", "p", "p", "p", "p", "p", "p", "p", "p", "/", "8", "/", "8", "/", "8", "/", "8", "/", "P", "P", "P", "P", "P", "P", "P", "P", "/", "R", "N", "B", "Q", "K", "B", "N", "R", " ", "w", " ", "K", "Q", "k", "q", " ", "-", " ", "0", " ", "1">>

\* rnbqkbnr/pppppppp/8/8/8/8/PPPPPPPP/RNBQKBNR w AHah - 0 1
STARTING_FEN_960 ==
    <<"r", "n", "b", "q", "k", "b", "n", "r", "/", "p", "p", "p", "p", "p", "p", "p", "p", "/", "8", "/", "8", "/", "8", "/", "8", "/", "P", "P", "P", "P", "P", "P", "P", "P", "/", "R", "N", "B", "Q", "K", "B", "N", "R", " ", "w", " ", "A", "H", "a", "h", " ", "-", " ", "0", " ", "1">>

\* the starting FEN from_fen and set_startpos use in the mode
StartFen(frc) == IF frc THEN STARTING_FEN_960 ELSE STARTING_FEN

\* the range set_frc_idx asserts
ScharnaglCount == 960

\* the double numbers set up: the classical pair, the first and the last
\* pair, and pairs of two different arrays
ScharnaglPairs ==
    {518 * 960 + 518, 0, 959 * 960 + 959, 518 + 960 * 959, 959, 17 + 960 * 600}

\* set_frc_idx with any number, on the new Board
ScharnaglSetFrc ==
    /\ last_op = "new"
    /\ \E idx \in 0..(ScharnaglCount - 1) :
           /\ SetBoard(set_frc_idx(Board, idx))
           /\ before' = <<"frc", idx>>
    /\ last_op' = "load"
    /\ last_move' = NoMove
    /\ UNCHANGED <<chess960, overflow_checks, history_table, double_history_table>>

\* set_dfrc_idx on the new Board
ScharnaglSetDfrc ==
    /\ last_op = "new"
    /\ \E idx \in ScharnaglPairs :
           /\ SetBoard(set_dfrc_idx(Board, idx))
           /\ before' = <<"dfrc", idx>>
    /\ last_op' = "load"
    /\ last_move' = NoMove
    /\ UNCHANGED <<chess960, overflow_checks, history_table, double_history_table>>

\* the classical array set up over whatever position is on the Board
ScharnaglClassical ==
    /\ before # <<>>
    /\ before[1] \in {"frc", "dfrc"}
    /\ \/ /\ SetBoard(set_frc_idx(Board, 518))
          /\ before' = <<"frc_again", 518>>
       \/ /\ SetBoard(set_dfrc_idx(Board, 518 * 960 + 518))
          /\ before' = <<"dfrc_again", 518 * 960 + 518>>
    /\ last_op' = "load"
    /\ last_move' = NoMove
    /\ UNCHANGED <<chess960, overflow_checks, history_table, double_history_table>>

NextFrc ==
    \/ ScharnaglSetFrc
    \/ ScharnaglSetDfrc
    \/ ScharnaglClassical

SpecFrc == Init /\ [][NextFrc]_vars

\* one king standing between two rooks, one queen, two knights, and two
\* bishops on files of different parity, that is on squares of opposite colour
BackrankShape(row) ==
    /\ Cardinality({f \in 0..7 : row[f] = "King"}) = 1
    /\ Cardinality({f \in 0..7 : row[f] = "Rook"}) = 2
    /\ Cardinality({f \in 0..7 : row[f] = "Queen"}) = 1
    /\ Cardinality({f \in 0..7 : row[f] = "Knight"}) = 2
    /\ Cardinality({f \in 0..7 : row[f] = "Bishop"}) = 2
    /\ \E k, r1, r2 \in 0..7 :
           r1 < k /\ k < r2 /\ row[k] = "King" /\ row[r1] = "Rook" /\ row[r2] = "Rook"
    /\ \E b1, b2 \in 0..7 :
           row[b1] = "Bishop" /\ row[b2] = "Bishop" /\ (b1 + b2) % 2 = 1

\* the pieces of colour c standing on a rank of the mailbox, as a back rank
RankRow(rank, c) ==
    [f \in 0..7 |->
        IF piece_array[from_rank_file(rank, f)] # NoPiece
           /\ colour[piece_array[from_rank_file(rank, f)]] = c
        THEN piece_type[piece_array[from_rank_file(rank, f)]]
        ELSE NoPiece]

\* R N B Q K B N R
ClassicalBackrank ==
    [f \in 0..7 |-> <<"Rook", "Knight", "Bishop", "Queen", "King", "Bishop", "Knight", "Rook">>[f + 1]]

\* C22: set_frc_idx(518) and set_dfrc_idx(518*960 + 518) give a Board equal
\* on every field to the Board parsed from the orthodox starting FEN, and
\* get_scharnagl_backrank(518) is R N B Q K B N R; for every index in 0..959
\* the back rank holds one king between two rooks, one queen, two knights and
\* two bishops on opposite-coloured squares.
C22_Scharnagl ==
    (last_op = "load" /\ before # <<>>) =>
        /\ before[2] \in {518, 518 * 960 + 518}
              => /\ Board = set_from_fen(BoardNew, StartFen(chess960), chess960).b
                 /\ get_scharnagl_backrank(518) = ClassicalBackrank
        /\ before[1] \in {"frc", "frc_again"}
              => /\ BackrankShape(get_scharnagl_backrank(before[2]))
                 /\ RankRow(0, White) = get_scharnagl_backrank(before[2])
                 /\ RankRow(7, Black) = get_scharnagl_backrank(before[2])
        /\ before[1] \in {"dfrc", "dfrc_again"}
              => /\ BackrankShape(RankRow(0, White))
                 /\ BackrankShape(RankRow(7, Black))
                 /\ RankRow(0, White) = get_scharnagl_backrank(before[2] % ScharnaglCount)
                 /\ RankRow(7, Black) = get_scharnagl_backrank(before[2] \div ScharnaglCount)

\* the classical array set up by number over another array
C22_Witness ==
    /\ last_op = "load"
    /\ before = <<"frc_again", 518>>
    /\ piece_array[E1] = PieceNew(White, "King")
    /\ castle_perm.wk = H1

\* the classical pair set up on the new Board
C22_WitnessDouble ==
    /\ last_op = "load"
    /\ before = <<"dfrc", 518 * 960 + 518>>
    /\ piece_array[E8] = PieceNew(Black, "King")

\* the last array, R K R N N Q B B: the king on b1 between rooks on a1 and c1
C22_WitnessLast ==
    /\ last_op = "load"
    /\ before = <<"frc", 959>>
    /\ piece_array[B1] = PieceNew(White, "King")
    /\ castle_perm.wk = C1

\* two different arrays paired
C22_WitnessMixed ==
    /\ last_op = "load"
    /\ before = <<"dfrc", 518 + 960 * 959>>
    /\ RankRow(0, White) # RankRow(7, Black)

-----------------------------------------------------------------------------
(* The key predicted before a move is made.                                *)

\* key_after with the captured piece left in the key
key_after_keeps_captured(b, m) ==
    hash_piece(hash_piece(hash_side(b.key), moved_piece(b, m), m.from),
               moved_piece(b, m), m.to)

\* key_after(m)
key_after(b, m) ==
    LET src == m.from
        tgt == m.to
        piece == moved_piece(b, m)
        captured == b.piece_array[tgt]
        new_key == hash_piece(hash_piece(hash_side(b.key), piece, src), piece, tgt)
    IN  IF captured # NoPiece THEN hash_piece(new_key, captured, tgt) ELSE new_key

\* key_after_null_move()
key_after_null_move(b) == hash_side(b.key)

\* a legal move that is neither a promotion, nor castling, nor an en passant
\* capture has been made
MadeSimple ==
    /\ last_op = "make_ok"
    /\ ~is_promo(last_move)
    /\ ~is_castle(last_move)
    /\ ~is_ep(last_move)

\* C26: for every position and every legal move m that is not a promotion,
\* castling or an en passant capture, key_after(m) equals the key after
\* make_move_simple(m); and for every position not in check,
\* key_after_null_move() equals the key after make_nullmove().
C26_KeyAfter ==
    /\ MadeSimple => key = key_after(before[1], last_move)
    /\ last_op = "null" => key = key_after_null_move(before[1])

\* C26 as it holds: the same, for a position without an en passant square,
\* and for a move that neither sets one nor changes the castling rights.
C26_KeyAfterPlain ==
    /\ (/\ MadeSimple
        /\ before[1].ep_sq = NoSq
        /\ ep_sq = NoSq
        /\ castle_perm = before[1].castle_perm)
           => key = key_after(before[1], last_move)
    /\ (last_op = "null" /\ before[1].ep_sq = NoSq)
           => key = key_after_null_move(before[1])

\* a capture made with the castling rights kept and no en passant square
C26_Witness ==
    /\ MadeSimple
    /\ before[1].ep_sq = NoSq
    /\ ep_sq = NoSq
    /\ castle_perm = before[1].castle_perm
    /\ castle_perm # CastlingNone
    /\ before[1].piece_array[last_move.to] # NoPiece

\* a null move made without an en passant square
C26_WitnessNull ==
    /\ last_op = "null"
    /\ before[1].ep_sq = NoSq
    /\ castle_perm # CastlingNone

\* the moves the prediction misses: a king or rook move that gives up a
\* castling right, a double push that sets the en passant square, a move or
\* a null move made with the en passant square set
C26_WitnessRightsLost ==
    /\ MadeSimple
    /\ before[1].ep_sq = NoSq
    /\ ep_sq = NoSq
    /\ castle_perm # before[1].castle_perm
    /\ key # key_after(before[1], last_move)

C26_WitnessEpSet ==
    /\ MadeSimple
    /\ ep_sq # NoSq
    /\ key # key_after(before[1], last_move)

C26_WitnessEpCleared ==
    /\ MadeSimple
    /\ before[1].ep_sq # NoSq
    /\ castle_perm = before[1].castle_perm
    /\ key # key_after(before[1], last_move)

C26_WitnessNullEp ==
    /\ last_op = "null"
    /\ before[1].ep_sq # NoSq
    /\ key # key_after_null_move(before[1])

-----------------------------------------------------------------------------
(* The history tables of a search thread: cleared, updated through get_mut *)
(* with update_history, and aged between searches.                         *)

\* the calls made on the tables in one run
MaxUpdates == 4

\* the depths a move is rewarded or punished at
MaxDepth == 200
DepthArgs == {1, 180}

\* the depths whose bonus is at most HISTORY_DIVISOR
BonusDepths == {d \in 0..MaxDepth : history_bonus(d) <= HISTORY_DIVISOR}

\* the slot of the butterfly table written
HistKeys == {<<"WP", A1>>}

\* the slots of the continuation table written: (piece_1, sq1, piece_2, sq2)
ContKeys ==
    {<<"WP", from_rank_file(1, 4), "WP", A1>>,
     <<"WP", A1, "WN", A1>>,
     <<"BK", H8, "BK", H8>>}

Updates == IF before = <<>> THEN 0 ELSE before[4]

\* HistoryTable::clear
HistoryClear ==
    /\ Updates < MaxUpdates
    /\ last_op # "hist_overflow"
    /\ history_table' = HistoryTableNew
    /\ last_op' = "hist_clear"
    /\ before' = <<history_table, double_history_table, <<>>, Updates + 1>>
    /\ SetBoard(Board)
    /\ UNCHANGED <<chess960, overflow_checks, double_history_table, last_move>>

\* DoubleHistoryTable::clear
DoubleHistoryClear ==
    /\ Updates < MaxUpdates
    /\ last_op # "hist_overflow"
    /\ double_history_table' = DoubleClear(double_history_table)
    /\ last_op' = "cont_clear"
    /\ before' = <<history_table, double_history_table, <<>>, Updates + 1>>
    /\ SetBoard(Board)
    /\ UNCHANGED <<chess960, overflow_checks, history_table, last_move>>

\* update_history on HistoryTable::get_mut(piece, sq)
HistoryUpdate ==
    /\ Updates < MaxUpdates
    /\ last_op # "hist_overflow"
    /\ \E k \in HistKeys : \E depth \in DepthArgs : \E is_good \in BOOLEAN :
           \E r \in {update_history(HistoryGet(history_table, k[1], k[2]), depth, is_good)} :
               /\ history_table' =
                      TableSet(history_table, <<hist_table_piece_offset(k[1]), k[2]>>, r.val)
               /\ last_op' = IF r.overflow THEN "hist_overflow" ELSE "hist_update"
               /\ before' = <<history_table, double_history_table, k, Updates + 1>>
    /\ SetBoard(Board)
    /\ UNCHANGED <<chess960, overflow_checks, double_history_table, last_move>>

\* update_history on DoubleHistoryTable::get_mut(piece_1, sq1, piece_2, sq2),
\* the table having been cleared (allocated) before its first use
DoubleHistoryUpdate ==
    /\ Updates < MaxUpdates
    /\ last_op # "hist_overflow"
    /\ double_history_table.len > 0
    /\ \E k \in ContKeys : \E depth \in DepthArgs : \E is_good \in BOOLEAN :
           \E r \in {update_history(DoubleGet(double_history_table, k[1], k[2], k[3], k[4]),
                                    depth, is_good)} :
               /\ double_history_table' =
                      [double_history_table EXCEPT
                          !.table = TableSet(@, DoubleIndex(k[1], k[2], k[3], k[4]), r.val)]
               /\ last_op' = IF r.overflow THEN "hist_overflow" ELSE "cont_update"
               /\ before' = <<history_table, double_history_table, k, Updates + 1>>
    /\ SetBoard(Board)
    /\ UNCHANGED <<chess960, overflow_checks, history_table, last_move>>

\* HistoryTable::age_entries
HistoryAge ==
    /\ Updates < MaxUpdates
    /\ last_op # "hist_overflow"
    /\ history_table' = age_entries(history_table)
    /\ last_op' = "hist_age"
    /\ before' = <<history_table, double_history_table, <<>>, Updates + 1>>
    /\ SetBoard(Board)
    /\ UNCHANGED <<chess960, overflow_checks, double_history_table, last_move>>

\* DoubleHistoryTable::age_entries, on a table that is not empty
DoubleHistoryAge ==
    /\ Updates < MaxUpdates
    /\ last_op # "hist_overflow"
    /\ double_history_table.len > 0
    /\ double_history_table' = DoubleAge(double_history_table)
    /\ last_op' = "cont_age"
    /\ before' = <<history_table, double_history_table, <<>>, Updates + 1>>
    /\ SetBoard(Board)
    /\ UNCHANGED <<chess960, overflow_checks, history_table, last_move>>

NextHistory ==
    \/ HistoryClear
    \/ DoubleHistoryClear
    \/ HistoryUpdate
    \/ DoubleHistoryUpdate
    \/ HistoryAge
    \/ DoubleHistoryAge

SpecHistory == Init /\ [][NextHistory]_vars

-----------------------------------------------------------------------------
(* Claims about the history tables.                                        *)

\* values over the whole range of an entry: every 127th, and those next to
\* zero and to the two ends
HistoryValues ==
    {v \in -HISTORY_DIVISOR..HISTORY_DIVISOR :
        v % 127 = 0 \/ Abs(v) <= 4 \/ Abs(v) >= HISTORY_DIVISOR - 4}

\* update_history and ageing on each of these values, at every depth whose
\* bonus is at most HISTORY_DIVISOR, in both directions
UpdateKeepsRange ==
    \A v \in HistoryValues :
        /\ Abs(TruncDiv(v, AGEING_DIVISOR)) <= HISTORY_DIVISOR
        /\ \A depth \in BonusDepths : \A is_good \in BOOLEAN :
               /\ ~update_history(v, depth, is_good).overflow
               /\ Abs(update_history(v, depth, is_good).val) <= HISTORY_DIVISOR

\* C27: for every history entry v with |v| <= 32767 and every depth whose
\* bonus depth^2 + depth is at most 32767, update_history (bonus or malus)
\* leaves |v| <= 32767; hence from cleared tables every entry stays within
\* [-32767, 32767] after any sequence of updates and age_entries calls, with
\* no 32-bit overflow in the intermediate product.
C27_HistoryBounded ==
    /\ UpdateKeepsRange
    /\ last_op # "hist_overflow"
    /\ \A s \in DOMAIN history_table : Abs(history_table[s]) <= HISTORY_DIVISOR
    /\ \A s \in DOMAIN double_history_table.table :
           Abs(double_history_table.table[s]) <= HISTORY_DIVISOR

\* an entry at the upper end rewarded once more at the largest depth
C27_Witness ==
    /\ last_op = "hist_update"
    /\ HistoryGet(before[1], "WP", A1) = HISTORY_DIVISOR
    /\ HistoryGet(history_table, "WP", A1) = HISTORY_DIVISOR

\* an entry punished below zero and then aged
C27_WitnessAged ==
    /\ last_op = "cont_age"
    /\ \E s \in DOMAIN before[2].table :
           /\ before[2].table[s] < -AGEING_DIVISOR
           /\ double_history_table.table[s] = TruncDiv(before[2].table[s], AGEING_DIVISOR)

\* the keys of the continuation table the index is computed for: every
\* second piece and first square, the first and last of the others
WideKeys ==
    {"WP", "BK"} \X Squares \X Pieces \X {A1, H8}

\* C28: DoubleHistoryTable::get and get_mut map every key (piece_1, sq1,
\* piece_2, sq2) to an index inside the allocated 64*12*64*12 table and map
\* distinct keys to distinct indices, so a write through get_mut for one key
\* never changes the value later read by get for a different key.
C28_DoubleHistoryIndex ==
    /\ \A k \in WideKeys :
           DoubleIndex(k[1], k[2], k[3], k[4]) \in 0..(DoubleClear(DoubleHistoryTableNew).len - 1)
    /\ \A k \in ContKeys : \A j \in ContKeys :
           k # j => DoubleIndex(k[1], k[2], k[3], k[4]) # DoubleIndex(j[1], j[2], j[3], j[4])
    /\ last_op = "cont_update" =>
           \A j \in ContKeys \ {before[3]} :
               DoubleGet(double_history_table, j[1], j[2], j[3], j[4])
                   = DoubleGet(before[2], j[1], j[2], j[3], j[4])

\* C28, the part that holds: every index is inside the allocated table
C28_IndexInside ==
    \A k \in WideKeys :
        DoubleIndex(k[1], k[2], k[3], k[4]) \in 0..(DoubleClear(DoubleHistoryTableNew).len - 1)

\* how far the indices overlap: the 64 * 12 keys of one first piece and one
\* second square fall on 196 slots
C28_SlotsShared ==
    Cardinality({DoubleIndex("WP", sq1, p, A1) : sq1 \in Squares, p \in Pieces})
        = (pslots - 1) * pslots + BOARD_N_SQUARES

\* a write through get_mut for one key read back through get for another
C28_WitnessAliased ==
    /\ last_op = "cont_update"
    /\ \E j \in ContKeys \ {before[3]} :
           DoubleGet(double_history_table, j[1], j[2], j[3], j[4])
               # DoubleGet(before[2], j[1], j[2], j[3], j[4])

\* a write to the last slot used
C28_WitnessLast ==
    /\ last_op = "cont_update"
    /\ before[3] = <<"BK", H8, "BK", H8>>
    /\ DoubleGet(double_history_table, "BK", H8, "BK", H8) # 0

-----------------------------------------------------------------------------
(* The life of a Board: loaded, moved on, taken as the root of a search,   *)
(* reset.  Every call is made in any order the signatures allow: an unmake *)
(* needs an Undo on the stack, and nothing more.                           *)

\* the plies of history these runs reach
MaxLifeHistory == 2

LifeFens == {FEN_EP_PIN, FEN_KK, FEN_EP_LONE}

\* the Board is in use: loaded, and no call has aborted
InUse ==
    last_op \in {"load", "make_ok", "make_fail", "unmake", "null", "unnull", "zero"}

\* `before` under SpecLifecycle: the ply the load set, then ply, height and
\* the stack depth before the last call, then whether an unmake was called
\* at height 0 since the load
LifeGhost(below_root) ==
    <<before[1], ply, height, Len(history), before[5] \/ below_root>>

\* height - 1 leaves the usize range: the build with overflow checks aborts,
\* the other wraps (height becomes -1, which stands for 2^64 - 1)
UnmakeAborts == overflow_checks /\ height = 0

LifeSetFromFen ==
    /\ last_op # "abort"
    /\ \E fen \in LifeFens :
           \E r \in {set_from_fen(Board, fen, chess960)} :
               /\ r.status = "Ok"
               /\ SetBoard(r.b)
               /\ before' = <<r.b.ply, r.b.ply, 0, 0, FALSE>>
    /\ last_op' = "load"
    /\ last_move' = NoMove
    /\ UNCHANGED <<chess960, overflow_checks, history_table, double_history_table>>

LifeMakeMove ==
    /\ InUse
    /\ Len(history) < MaxLifeHistory
    /\ \E e \in Entries(generate_moves(Board, chess960)) :
           \E r \in {make_move_base(Board, e.mov)} :
               /\ SetBoard(r.board)
               /\ last_op' = IF r.ok THEN "make_ok" ELSE "make_fail"
               /\ last_move' = e.mov
    /\ before' = LifeGhost(FALSE)
    /\ UNCHANGED <<chess960, overflow_checks, history_table, double_history_table>>

LifeUnmakeMove ==
    /\ InUse
    /\ history # <<>>
    /\ ~last_move_was_nullmove(Board)
    /\ IF UnmakeAborts
       THEN SetBoard(Board) /\ last_op' = "abort"
       ELSE SetBoard(unmake_move_base(Board)) /\ last_op' = "unmake"
    /\ last_move' = NoMove
    /\ before' = LifeGhost(height = 0)
    /\ UNCHANGED <<chess960, overflow_checks, history_table, double_history_table>>

LifeMakeNullmove ==
    /\ InUse
    /\ Len(history) < MaxLifeHistory
    /\ ~in_check(Board)
    /\ SetBoard(make_nullmove(Board))
    /\ last_op' = "null"
    /\ last_move' = NoMove
    /\ before' = LifeGhost(FALSE)
    /\ UNCHANGED <<chess960, overflow_checks, history_table, double_history_table>>

LifeUnmakeNullmove ==
    /\ InUse
    /\ last_move_was_nullmove(Board)
    /\ IF UnmakeAborts
       THEN SetBoard(Board) /\ last_op' = "abort"
       ELSE SetBoard(unmake_nullmove(Board)) /\ last_op' = "unnull"
    /\ last_move' = NoMove
    /\ before' = LifeGhost(height = 0)
    /\ UNCHANGED <<chess960, overflow_checks, history_table, double_history_table>>

LifeZeroHeight ==
    /\ InUse
    /\ SetBoard(zero_height(Board))
    /\ last_op' = "zero"
    /\ last_move' = NoMove
    /\ before' = LifeGhost(FALSE)
    /\ UNCHANGED <<chess960, overflow_checks, history_table, double_history_table>>

\* reset()
LifeReset ==
    /\ InUse
    /\ SetBoard(reset(Board))
    /\ last_op' = "reset"
    /\ last_move' = NoMove
    /\ before' = <<Board>>
    /\ UNCHANGED <<chess960, overflow_checks, history_table, double_history_table>>

NextLifecycle ==
    \/ LifeSetFromFen
    \/ LifeMakeMove
    \/ LifeUnmakeMove
    \/ LifeMakeNullmove
    \/ LifeUnmakeNullmove
    \/ LifeZeroHeight
    \/ LifeReset

SpecLifecycle == InitParse /\ [][NextLifecycle]_vars

\* C29: after reset() on a Board in any reachable state, the Board equals a
\* freshly created Board::new() on every field: no pieces, empty mailbox,
\* side White, no ep square, no castling rights, fifty = ply = height = 0,
\* empty history, default threats and all five hash keys (key, pawn, both
\* non-pawn, minor, major) equal to zero.
C29_ResetEqualsNew ==
    last_op = "reset" => Board = BoardNew

\* C29, what reset does: every field but the two non-pawn keys, the minor
\* key and the major key is that of Board::new(), and these keep the value
\* they had
C29_ResetButClassKeys ==
    last_op = "reset" =>
        /\ Board = [BoardNew EXCEPT !.non_pawn_key = non_pawn_key,
                                    !.minor_key = minor_key, !.major_key = major_key]
        /\ non_pawn_key = before[1].non_pawn_key
        /\ minor_key = before[1].minor_key
        /\ major_key = before[1].major_key

\* a Board reset after a move was made on it, its class keys not zero
C29_Witness ==
    /\ last_op = "reset"
    /\ before[1].history # <<>>
    /\ non_pawn_key[White] # {}
    /\ non_pawn_key[Black] # {}
    /\ minor_key # {}
    /\ major_key # {}

\* the counters after the last call, against those before it
CountersStep ==
    /\ last_op \in {"make_ok", "null"} =>
           /\ ply = before[2] + 1
           /\ height = before[3] + 1
           /\ Len(history) = before[4] + 1
    /\ last_op \in {"unmake", "unnull"} =>
           /\ ply = before[2] - 1
           /\ height >= 0
           /\ height = before[3] - 1
           /\ Len(history) = before[4] - 1

\* C30: after any sequence of position loads, successful and failed
\* make_move_base, unmake_move_base, make_nullmove, unmake_nullmove and
\* zero_height calls in which unmakes are LIFO-matched to makes, height never
\* exceeds the number of Undo records on the history stack, each successful
\* make or null move raises ply, height and the stack depth by exactly one,
\* each unmake lowers all three by one, and ply minus the stack depth stays
\* equal to the ply set when the position was loaded.
C30_Counters ==
    /\ last_op # "abort"
    /\ InUse =>
           /\ height \in 0..Len(history)
           /\ CountersStep
           /\ ply - Len(history) = before[1]

\* C30 as it holds: the same, as long as no unmake is called at height 0,
\* that is on a move made before the last zero_height
C30_CountersAboveRoot ==
    /\ (last_op = "abort" \/ InUse) /\ ~before[5] =>
           /\ last_op # "abort"
           /\ height \in 0..Len(history)
           /\ CountersStep
    /\ InUse => ply - Len(history) = before[1]

\* a null move unmade above the root, after a zero_height
C30_Witness ==
    /\ last_op = "unnull"
    /\ ~before[5]
    /\ before[3] = 1
    /\ before[4] = 2

\* a move made at the root of a search, one Undo already on the stack
C30_WitnessMade ==
    /\ last_op = "make_ok"
    /\ ~before[5]
    /\ before[4] = 1
    /\ before[3] = 0

\* an unmake at height 0, in either build
C30_WitnessWrapped ==
    /\ last_op = "unmake"
    /\ height = -1

C30_WitnessAborted ==
    /\ last_op = "abort"
    /\ before[3] = 0
    /\ before[4] > 0

====
